---------------------------- MODULE Spec2Model ----------------------------
(***************************************************************************)
(* State-machine model of the watch-sys status proxy (server/index.js):    *)
(* the refresh pipeline (refreshCache), the read-through cache (getCache   *)
(* and the /api/incidents and /api/health routes), the webhook and email   *)
(* notifiers, the dedup ledger (sentIncidentIds) and the subscriber set.   *)
(*                                                                         *)
(* JavaScript runs one callback at a time.  Every action below is one      *)
(* task of the event loop (an HTTP request, a timer, the answer of a       *)
(* socket) together with the continuations that the promises it settles    *)
(* make ready: those run as microtasks, before any other task.             *)
(*                                                                         *)
(* Text that the classifier inspects is a sequence of one-character        *)
(* strings; the empty sequence is the empty string, and stands for an      *)
(* undefined text field too (both are falsy and both default to "").       *)
(* Other strings (ids, links, dates) are TLA+ strings, "" when absent.     *)
(***************************************************************************)
EXTENDS Integers, Sequences, FiniteSets, TLC

\* ------------------------------------------------------------------ bounds
\* The clock stops at MaxTime; readers are the concurrent GET /api/incidents
\* requests the model follows.
MaxTime == 4
MaxReaders == 2

\* subscriber queries that are out at a time
MaxSubOps == 2

\* incidents of one provider in a sort
MaxItems == 3

\* ------------------------------------------------------- program constants
\* CACHE_TTL_MS is 5 * 60 * 1000 in the source; one clock unit of the model
\* is one TTL, so that fresh and stale ages both occur below MaxTime.
CACHE_TTL_MS == 1
\* MAX_SENT_IDS is 500 in the source; scaled so that the ledger overflows
\* with the identities the model's feeds can produce.
MAX_SENT_IDS == 2
\* slice(0, 5) in both notifiers, scaled to 2 so that a cycle with three
\* new incidents brings more than one message holds.
BATCH_LIMIT == 2

\* NOW() of the database, in statements apart: how far the model follows it
MaxDbTime == 1

\* the sequences without repetition of the members of S
OrdersOf(S) ==
    {s \in UNION {[1..n -> S] : n \in 0..Cardinality(S)} :
        \A i \in DOMAIN s, j \in DOMAIN s : i # j => s[i] # s[j]}

\* ------------------------------------------------------------ text helpers
UpperChars == <<"A", "B", "C", "D", "E", "F", "G", "H", "I", "J", "K", "L", "M",
                "N", "O", "P", "Q", "R", "S", "T", "U", "V", "W", "X", "Y", "Z">>
LowerChars == <<"a", "b", "c", "d", "e", "f", "g", "h", "i", "j", "k", "l", "m",
                "n", "o", "p", "q", "r", "s", "t", "u", "v", "w", "x", "y", "z">>
WordChars == {LowerChars[i] : i \in DOMAIN LowerChars}
                 \cup {UpperChars[i] : i \in DOMAIN UpperChars}
                 \cup {"0", "1", "2", "3", "4", "5", "6", "7", "8", "9", "_"}

\* String.prototype.toLowerCase
toLowerCase(s) ==
    [i \in DOMAIN s |->
        IF \E k \in DOMAIN UpperChars : UpperChars[k] = s[i]
        THEN LowerChars[CHOOSE k \in DOMAIN UpperChars : UpperChars[k] = s[i]]
        ELSE s[i]]

\* pat occurs in text at offset i (0-based)
MatchAt(text, pat, i) ==
    /\ i >= 0
    /\ i + Len(pat) <= Len(text)
    /\ \A k \in 1..Len(pat) : text[i + k] = pat[k]

\* String.prototype.includes
includes(text, pat) == \E i \in 0..Len(text) : MatchAt(text, pat, i)

\* \b of a regular expression at offset i (between text[i] and text[i+1])
WordBoundary(text, i) ==
    LET before == i >= 1 /\ i <= Len(text) /\ text[i] \in WordChars
        after == i + 1 >= 1 /\ i + 1 <= Len(text) /\ text[i + 1] \in WordChars
    IN  before # after

Directions == {<<"e", "a", "s", "t">>, <<"w", "e", "s", "t">>,
               <<"n", "o", "r", "t", "h">>, <<"s", "o", "u", "t", "h">>,
               <<"c", "e", "n", "t", "r", "a", "l">>}

\* /\b(east|west|north|south|central).*and.*(east|west|north|south|central)\b/
\* ('.' does not match a line terminator)
MatchesRegionPair(text) ==
    \E d1 \in Directions, i \in 0..Len(text) :
        /\ WordBoundary(text, i)
        /\ MatchAt(text, d1, i)
        /\ \E j \in (i + Len(d1))..Len(text) :
              /\ MatchAt(text, <<"a", "n", "d">>, j)
              /\ \E d2 \in Directions, k \in (j + 3)..Len(text) :
                    /\ MatchAt(text, d2, k)
                    /\ WordBoundary(text, k + Len(d2))
                    /\ \A p \in (i + 1)..(k + Len(d2)) : text[p] # "\n"

\* An argument that is undefined: a text no feed can hold.
Undefined == <<"undefined">>

\* function normalizeStatus(title = "", content = ""): the default values
\* of the parameters
DefaultText(arg) == IF arg = Undefined THEN <<>> ELSE arg

\* `${title} ${content}`.toLowerCase()
ClassifierText(title, content) ==
    toLowerCase(DefaultText(title) \o <<" ">> \o DefaultText(content))

ResolvedTerms ==
    {<<"r", "e", "s", "o", "l", "v", "e", "d">>,
     <<"m", "i", "t", "i", "g", "a", "t", "e", "d">>,
     <<"r", "e", "s", "t", "o", "r", "e", "d">>,
     <<"s", "t", "a", "b", "i", "l", "i", "z", "e", "d">>,
     <<"r", "e", "c", "o", "v", "e", "r", "i", "n", "g">>,
     <<"r", "e", "c", "o", "v", "e", "r", "y", " ", "c", "o", "m", "p", "l", "e", "t", "e">>}
DegradedTerms ==
    {<<"d", "e", "g", "r", "a", "d">>,
     <<"d", "e", "g", "r", "a", "d", "a", "t", "i", "o", "n">>}
IncidentTerms ==
    {<<"o", "u", "t", "a", "g", "e">>,
     <<"i", "n", "c", "i", "d", "e", "n", "t">>}
CriticalTerms ==
    {<<"o", "u", "t", "a", "g", "e">>,
     <<"u", "n", "a", "v", "a", "i", "l", "a", "b", "l", "e">>,
     <<"c", "o", "m", "p", "l", "e", "t", "e", " ", "f", "a", "i", "l", "u", "r", "e">>}
HighTerms ==
    {<<"f", "a", "i", "l", "u", "r", "e">>,
     <<"u", "n", "a", "b", "l", "e">>,
     <<"m", "a", "j", "o", "r">>,
     <<"m", "u", "l", "t", "i", "p", "l", "e", " ", "r", "e", "g", "i", "o", "n", "s">>,
     <<"d", "e", "p", "e", "n", "d", "e", "n", "t", " ", "s", "e", "r", "v", "i", "c", "e">>}
MediumTerms ==
    {<<"d", "e", "g", "r", "a", "d", "e", "d">>,
     <<"i", "n", "t", "e", "r", "m", "i", "t", "t", "e", "n", "t">>,
     <<"d", "e", "l", "a", "y", "s">>,
     <<"e", "l", "e", "v", "a", "t", "e", "d", " ", "l", "a", "t", "e", "n", "c", "y">>}

includesAny(text, terms) == \E t \in terms : includes(text, t)

\* ------------------------------------------------------------- classifier
\* a classifier that looks for investigating before the resolved terms
normalizeStatusInvestigatingFirst(title, content) ==
    LET text == ClassifierText(title, content)
    IN  IF includes(text, <<"i", "n", "v", "e", "s", "t", "i", "g", "a", "t", "i", "n", "g">>)
        THEN "investigating"
        ELSE IF includesAny(text, ResolvedTerms) THEN "resolved"
        ELSE IF includes(text, <<"m", "a", "i", "n", "t", "e", "n", "a", "n", "c", "e">>)
             THEN "maintenance"
        ELSE IF includesAny(text, DegradedTerms) THEN "degraded"
        ELSE IF includesAny(text, IncidentTerms) THEN "incident"
        ELSE "info"

normalizeStatus(title, content) ==
    LET text == ClassifierText(title, content)
    IN  IF includesAny(text, ResolvedTerms) THEN "resolved"
        ELSE IF includes(text, <<"i", "n", "v", "e", "s", "t", "i", "g", "a", "t", "i", "n", "g">>)
             THEN "investigating"
        ELSE IF includes(text, <<"m", "a", "i", "n", "t", "e", "n", "a", "n", "c", "e">>)
             THEN "maintenance"
        ELSE IF includesAny(text, DegradedTerms) THEN "degraded"
        ELSE IF includesAny(text, IncidentTerms) THEN "incident"
        ELSE "info"

detectSeverity(title, content) ==
    LET text == ClassifierText(title, content)
    IN  IF includesAny(text, CriticalTerms) THEN "critical"
        ELSE IF \/ includesAny(text, HighTerms)
                \/ (includes(text, <<"r", "e", "g", "i", "o", "n">>)
                      /\ includes(text, <<"i", "m", "p", "a", "c", "t", "e", "d">>))
                \/ MatchesRegionPair(text)
             THEN "high"
        ELSE IF includesAny(text, MediumTerms) THEN "medium"
        ELSE "low"

getSeverityPriority(severity) ==
    CASE severity = "critical" -> 0
      [] severity = "high" -> 1
      [] severity = "medium" -> 2
      [] severity = "low" -> 3
      [] OTHER -> 999

\* ------------------------------------------------------- source registry
\* FEEDS (the url is not used by the model)
FEEDS ==
    << [id |-> "azure-status", provider |-> "Azure", name |-> "Azure Status"],
       [id |-> "azure-devops", provider |-> "Azure", name |-> "Azure DevOps Status"],
       [id |-> "aws-status", provider |-> "AWS", name |-> "AWS Service Health Dashboard"],
       [id |-> "gcp-status", provider |-> "GCP", name |-> "Google Cloud Status"] >>

FeedIx == DOMAIN FEEDS

\* ---------------------------------------------------------------- mapItem
\* a || b on texts and on strings: the first truthy operand
OrText(a, b) == IF a # <<>> THEN a ELSE b
OrStr(a, b) == IF a # "" THEN a ELSE b

\* item.guid || item.link || `${feed.id}-${item.pubDate || item.isoDate || item.title}`
\* An identity is a sequence of strings: the pieces of the resulting string.
IncidentId(item, feed) ==
    IF item.guid # "" THEN <<item.guid>>
    ELSE IF item.link # "" THEN <<item.link>>
    ELSE IF OrStr(item.pubDate, item.isoDate) # ""
         THEN <<feed.id, "-", OrStr(item.pubDate, item.isoDate)>>
         ELSE <<feed.id, "-">> \o item.title

mapItem(item, feed) ==
    LET summary == OrText(item.contentSnippet, item.content)
    IN  [id |-> IncidentId(item, feed),
         provider |-> feed.provider,
         source |-> feed.name,
         title |-> OrText(item.title, <<"U", "n", "t", "i", "t", "l", "e", "d", " ",
                                        "i", "n", "c", "i", "d", "e", "n", "t">>),
         summary |-> summary,
         status |-> normalizeStatus(item.title, summary),
         severity |-> detectSeverity(item.title, summary),
         link |-> item.link,
         publishedAt |-> OrStr(item.isoDate, item.pubDate)]

\* (parsed.items || []).map((item) => mapItem(item, feed))
mapItems(items, feed) == [i \in DOMAIN items |-> mapItem(items[i], feed)]

\* ------------------------------------------------------------------- sort
\* Date.parse on the date strings of the model: "d<n>" is a parsable date
\* n time units after the epoch, anything else does not parse (NaN).
DateParse(s) ==
    CASE s = "d1" -> [nan |-> FALSE, ms |-> 1]
      [] s = "d2" -> [nan |-> FALSE, ms |-> 2]
      [] s = "d3" -> [nan |-> FALSE, ms |-> 3]
      [] OTHER -> [nan |-> TRUE, ms |-> 0]

\* a.publishedAt ? Date.parse(a.publishedAt) : 0
PublishedTime(incident) ==
    IF incident.publishedAt # "" THEN DateParse(incident.publishedAt)
    ELSE [nan |-> FALSE, ms |-> 0]

\* the comparator of items.sort; a NaN result counts as 0 (SortCompare)
compareIncidents(a, b) ==
    LET aSeverity == getSeverityPriority(a.severity)
        bSeverity == getSeverityPriority(b.severity)
        aTime == PublishedTime(a)
        bTime == PublishedTime(b)
    IN  IF aSeverity # bSeverity THEN aSeverity - bSeverity
        ELSE IF aTime.nan \/ bTime.nan THEN 0
        ELSE bTime.ms - aTime.ms

\* Array.prototype.sort is stable: x goes after every element that does not
\* compare greater than it.
InsertSorted(sorted, x) ==
    LET greater == {i \in DOMAIN sorted : compareIncidents(sorted[i], x) > 0}
        pos == IF greater = {} THEN Len(sorted) + 1
               ELSE CHOOSE i \in greater : \A j \in greater : i <= j
    IN  SubSeq(sorted, 1, pos - 1) \o <<x>> \o SubSeq(sorted, pos, Len(sorted))

RECURSIVE sortIncidents(_)
sortIncidents(items) ==
    IF items = <<>> THEN <<>>
    ELSE InsertSorted(sortIncidents(SubSeq(items, 1, Len(items) - 1)), items[Len(items)])

\* The comparator is a consistent comparator for the items (ECMAScript,
\* Array.prototype.sort): comparing as equal, as less and as greater are
\* transitive and agree when the arguments are swapped.
ConsistentComparator(items) ==
    LET S == {items[i] : i \in DOMAIN items}
        eq(a, b) == compareIncidents(a, b) = 0
        lt(a, b) == compareIncidents(a, b) < 0
        gt(a, b) == compareIncidents(a, b) > 0
    IN  \A a \in S, b \in S, c \in S :
            /\ eq(a, a)
            /\ eq(a, b) => eq(b, a)
            /\ lt(a, b) <=> gt(b, a)
            /\ (eq(a, b) /\ eq(b, c)) => eq(a, c)
            /\ (lt(a, b) /\ lt(b, c)) => lt(a, c)
            /\ (gt(a, b) /\ gt(b, c)) => gt(a, c)

\* items.sort(comparator): the stable sort when the comparator is
\* consistent; otherwise the order is implementation-defined, any
\* arrangement of the items
sortResults(items) ==
    IF ConsistentComparator(items) THEN {sortIncidents(items)}
    ELSE {[i \in DOMAIN items |-> items[p[i]]] :
             p \in {q \in OrdersOf(DOMAIN items) : Len(q) = Len(items)}}

\* ------------------------------------------------------------------ merge
\* A settled fetch is [status |-> "fulfilled", items |-> <incidents>] or
\* [status |-> "rejected", message |-> <reason.message, "" when absent>].

\* providerMap after results[1..n]: a Map keeps its keys in insertion order
RECURSIVE providerOrder(_, _)
providerOrder(results, n) ==
    IF n = 0 THEN <<>>
    ELSE LET before == providerOrder(results, n - 1)
             p == FEEDS[n].provider
         IN  IF results[n].status = "fulfilled"
                  /\ ~ \E i \in DOMAIN before : before[i] = p
             THEN Append(before, p)
             ELSE before

RECURSIVE providerItems(_, _, _)
providerItems(results, p, n) ==
    IF n = 0 THEN <<>>
    ELSE IF results[n].status = "fulfilled" /\ FEEDS[n].provider = p
         THEN providerItems(results, p, n - 1) \o results[n].items
         ELSE providerItems(results, p, n - 1)

RECURSIVE collectErrors(_, _)
collectErrors(results, n) ==
    IF n = 0 THEN <<>>
    ELSE IF results[n].status = "rejected"
         THEN Append(collectErrors(results, n - 1),
                     [provider |-> FEEDS[n].provider,
                      source |-> FEEDS[n].name,
                      message |-> OrStr(results[n].message, "Failed to load feed")])
         ELSE collectErrors(results, n - 1)

buildProviders(results) ==
    LET order == providerOrder(results, Len(FEEDS))
    IN  [i \in DOMAIN order |->
            [provider |-> order[i],
             incidents |-> sortIncidents(providerItems(results, order[i], Len(FEEDS)))]]

\* a merge that gives up the incidents of every source once one source fails
buildNextCacheAllOrNothing(results, dateNow) ==
    [updatedAt |-> dateNow,
     providers |-> IF \E i \in DOMAIN results : results[i].status = "rejected"
                   THEN <<>> ELSE buildProviders(results),
     errors |-> collectErrors(results, Len(FEEDS))]

\* a merge that falls back to the zeroed snapshot when no source answered
buildNextCacheZeroed(results, dateNow) ==
    IF \A i \in DOMAIN results : results[i].status = "rejected"
    THEN [updatedAt |-> 0, providers |-> <<>>, errors |-> <<>>]
    ELSE [updatedAt |-> dateNow,
          providers |-> buildProviders(results),
          errors |-> collectErrors(results, Len(FEEDS))]

\* const nextCache = { updatedAt: Date.now(), providers, errors }
buildNextCache(results, dateNow) ==
    [updatedAt |-> dateNow,
     providers |-> buildProviders(results),
     errors |-> collectErrors(results, Len(FEEDS))]

RECURSIVE flattenProviders(_)
flattenProviders(providers) ==
    IF providers = <<>> THEN <<>>
    ELSE providers[1].incidents \o flattenProviders(Tail(providers))

flattenIncidents(snapshot) == flattenProviders(snapshot.providers)

\* ----------------------------------------------------------- dedup ledger
\* sentIncidentIds is a Set: a sequence without repetition, in insertion
\* order.
InLedger(ledger, id) == \E i \in DOMAIN ledger : ledger[i] = id

\* a ledger that never evicts
rememberIncidentUnbounded(ledger, id) ==
    IF id = <<>> \/ InLedger(ledger, id) THEN ledger ELSE Append(ledger, id)

\* a ledger in which an identity that is added again becomes the newest
rememberIncidentRefresh(ledger, id) ==
    IF id = <<>> THEN ledger
    ELSE LET others == SelectSeq(ledger, LAMBDA x : x # id)
             added == Append(others, id)
         IN  IF Len(added) > MAX_SENT_IDS THEN Tail(added) ELSE added

\* rememberIncident: add, then delete the oldest once the size is over MAX_SENT_IDS
rememberIncident(ledger, id) ==
    IF id = <<>> THEN ledger
    ELSE LET added == IF InLedger(ledger, id) THEN ledger ELSE Append(ledger, id)
         IN  IF Len(added) > MAX_SENT_IDS THEN Tail(added) ELSE added

\* a notifier that marks nothing before its deliveries
rememberNone(ledger, incidents) == ledger

RECURSIVE rememberAll(_, _)
rememberAll(ledger, incidents) ==
    IF incidents = <<>> THEN ledger
    ELSE rememberAll(rememberIncident(ledger, incidents[1].id), Tail(incidents))

\* ------------------------------------------------------------ diff rules
IdsOf(incidents) == {incidents[i].id : i \in DOMAIN incidents}

\* the filter without the ledger: new relative to the previous snapshot only
IsNewForWebhookNoLedger(item, previousIds, ledger) ==
    /\ item.id # <<>>
    /\ item.id \notin previousIds

\* notifyOnNewIncidents: the filter
IsNewForWebhook(item, previousIds, ledger) ==
    /\ item.id # <<>>
    /\ item.id \notin previousIds
    /\ ~ InLedger(ledger, item.id)

\* a filter that does not look at the previous snapshot
webhookNewIncidentsLedgerOnly(prevCache, nextCache, ledger) ==
    LET keep(item) == item.id # <<>> /\ ~ InLedger(ledger, item.id)
    IN  SelectSeq(flattenIncidents(nextCache), keep)

\* const newIncidents = nextIncidents.filter(...)
webhookNewIncidents(prevCache, nextCache, ledger) ==
    LET previousIds == IdsOf(flattenIncidents(prevCache))
        keep(item) == IsNewForWebhook(item, previousIds, ledger)
    IN  SelectSeq(flattenIncidents(nextCache), keep)

\* a message that lists every incident
firstBatchUncapped(incidents) == incidents

\* slice(0, 5)
firstBatch(incidents) ==
    SubSeq(incidents, 1, IF Len(incidents) < BATCH_LIMIT THEN Len(incidents) ELSE BATCH_LIMIT)

\* buildIncidentLines: one line per incident
buildIncidentLines(incidents) ==
    [i \in DOMAIN incidents |->
        [provider |-> incidents[i].provider, title |-> incidents[i].title,
         status |-> incidents[i].status, link |-> incidents[i].link]]

\* previousMap.get(id): the last incident of the previous snapshot with
\* that identity (Map.set overwrites)
HasPrev(prevList, id) == id # <<>> /\ \E i \in DOMAIN prevList : prevList[i].id = id
PrevOf(prevList, id) ==
    prevList[CHOOSE i \in DOMAIN prevList :
                /\ prevList[i].id = id
                /\ \A j \in DOMAIN prevList : prevList[j].id = id => j <= i]

emailNewIncidents(prevCache, nextCache, ledger) ==
    LET prevList == flattenIncidents(prevCache)
        keep(item) == /\ item.id # <<>>
                      /\ ~ HasPrev(prevList, item.id)
                      /\ ~ InLedger(ledger, item.id)
    IN  SelectSeq(flattenIncidents(nextCache), keep)

\* a diff that reports every incident known before, changed or not
emailStatusChangesAnyPrev(prevCache, nextCache) ==
    LET prevList == flattenIncidents(prevCache)
        keep(item) == item.id # <<>> /\ HasPrev(prevList, item.id)
        changed == SelectSeq(flattenIncidents(nextCache), keep)
    IN  [i \in DOMAIN changed |->
            [incident |-> changed[i],
             previousStatus |-> PrevOf(prevList, changed[i].id).status]]

\* notifyOnNewIncidentsByEmail: else if (prev && prev.status !== incident.status)
emailStatusChanges(prevCache, nextCache) ==
    LET prevList == flattenIncidents(prevCache)
        keep(item) == /\ item.id # <<>>
                      /\ HasPrev(prevList, item.id)
                      /\ PrevOf(prevList, item.id).status # item.status
        changed == SelectSeq(flattenIncidents(nextCache), keep)
    IN  [i \in DOMAIN changed |->
            [incident |-> changed[i],
             previousStatus |-> PrevOf(prevList, changed[i].id).status]]

\* -------------------------------------------------------- subscriber store
Whitespace == {" ", "\t", "\n"}

RECURSIVE trimStart(_)
trimStart(s) == IF s # <<>> /\ s[1] \in Whitespace THEN trimStart(Tail(s)) ELSE s

RECURSIVE trimEnd(_)
trimEnd(s) ==
    IF s # <<>> /\ s[Len(s)] \in Whitespace THEN trimEnd(SubSeq(s, 1, Len(s) - 1)) ELSE s

\* String.prototype.trim
trim(s) == trimEnd(trimStart(s))

\* (req.body?.email || "").toLowerCase().trim()
normalizeEmail(raw) == trim(toLowerCase(raw))

\* an address pattern without the dot of the domain
isValidEmailNoDot(email) ==
    \E p \in DOMAIN email :
        /\ email[p] = "@"
        /\ p >= 2
        /\ p <= Len(email) - 1
        /\ \A i \in DOMAIN email : i # p => email[i] \notin Whitespace \cup {"@"}

\* /^[^\s@]+@[^\s@]+\.[^\s@]+$/
isValidEmail(email) ==
    \E p \in DOMAIN email, q \in DOMAIN email :
        /\ email[p] = "@"
        /\ email[q] = "."
        /\ p >= 2
        /\ q >= p + 2
        /\ q <= Len(email) - 1
        /\ \A i \in DOMAIN email : i # p => email[i] \notin Whitespace \cup {"@"}

\* subscriberEmails is a Set: a sequence without repetition, in insertion
\* order; its size is the length of the sequence.
setHas(set, value) == \E i \in DOMAIN set : set[i] = value

\* an array push in the place of Set.prototype.add
setAddPush(set, value) == Append(set, value)

\* subscriberEmails.add(email)
setAdd(set, value) == IF setHas(set, value) THEN set ELSE Append(set, value)

\* subscriberEmails.delete(email)
setDelete(set, value) ==
    LET keep(member) == member # value
    IN  SelectSeq(set, keep)

\* result.rows.forEach((row) => { if (isValidEmail(row.email)) subscriberEmails.add(row.email); })
RECURSIVE addRows(_, _)
addRows(set, rows) ==
    IF rows = <<>> THEN set
    ELSE addRows(IF isValidEmail(rows[1]) THEN setAdd(set, rows[1]) ELSE set, Tail(rows))

\* INSERT INTO subscribers (email) VALUES ($1) ON CONFLICT (email) DO NOTHING
insertSubscriber(table, email) == table \cup {email}

\* DELETE FROM subscribers WHERE email = $1
deleteSubscriber(table, email) == table \ {email}

\* ------------------------------------------------------------ input sets
\* Raw feed items the model's endpoints can serve.
ItemX1 == [guid |-> "X", link |-> "", isoDate |-> "d1", pubDate |-> "",
           title |-> <<"I", "n", "v", "e", "s", "t", "i", "g", "a", "t", "i", "n", "g", " ",
                       "d", "e", "l", "a", "y", "s">>,
           contentSnippet |-> <<>>, content |-> <<>>]
ItemX2 == [guid |-> "X", link |-> "", isoDate |-> "d1", pubDate |-> "",
           title |-> <<"R", "e", "s", "o", "l", "v", "e", "d">>,
           contentSnippet |-> <<>>, content |-> <<>>]
ItemY == [guid |-> "", link |-> "https://y", isoDate |-> "", pubDate |-> "d2",
          title |-> <<"O", "u", "t", "a", "g", "e">>,
          contentSnippet |-> <<>>, content |-> <<"E", "a", "s", "t", " ", "U", "S">>]
ItemZ == [guid |-> "", link |-> "", isoDate |-> "", pubDate |-> "",
          title |-> <<"M", "a", "i", "n", "t", "e", "n", "a", "n", "c", "e">>,
          contentSnippet |-> <<>>, content |-> <<>>]

\* the items of ItemY and ItemZ once their feeds report them as over
ItemY2 == [ItemY EXCEPT !.content = <<"R", "e", "s", "t", "o", "r", "e", "d">>]
ItemZ2 == [ItemZ EXCEPT !.content = <<"R", "e", "s", "o", "l", "v", "e", "d">>]

\* two reports of one feed that carry no guid and no link and the same
\* pubDate
ItemP1 == [ItemX1 EXCEPT !.guid = "", !.isoDate = "", !.pubDate = "d1"]
ItemP2 == [ItemX2 EXCEPT !.guid = "", !.isoDate = "", !.pubDate = "d1"]

Fulfilled(i, items) ==
    [status |-> "fulfilled", items |-> mapItems(items, FEEDS[i]), message |-> ""]
Rejected(message) == [status |-> "rejected", items |-> <<>>, message |-> message]
Pending == [status |-> "pending", items |-> <<>>, message |-> ""]

\* The ways the fetch of source i can settle: parsed items, a timeout or
\* another error (with or without a message).
Outcomes(i) ==
    CASE i = 1 -> {Fulfilled(1, <<ItemX1>>), Fulfilled(1, <<ItemX2>>),
                   Rejected("Request timed out after 15000ms")}
      [] i = 2 -> {Fulfilled(2, <<ItemY>>), Rejected("")}
      [] i = 3 -> {Fulfilled(3, <<ItemZ>>), Rejected("Status code 503")}
      [] OTHER -> {Fulfilled(i, <<>>), Rejected("Request timed out after 15000ms")}

\* Bodies of the POST /api/subscriptions/email requests made before the
\* first state of the model, and the addresses the route stored for them.
RawEmails == {<<" ", "A", "@", "b", ".", "c">>, <<"a", "@", "b">>}
Subscribers == {e \in {normalizeEmail(raw) : raw \in RawEmails} : isValidEmail(e)}

\* req.body?.email of the requests to the subscription routes: the bodies
\* above, the same address in lower case with a space after it, and no body
RequestEmails == RawEmails \cup {<<"a", "@", "b", ".", "c", " ">>, <<>>}

\* Rows the table subscribers can hold when the process starts.  The table
\* outlives the process and is open to every client of the database;
\* loadSubscribers passes each row through isValidEmail for that reason.
StoredRows == {<<"a", "@", "b", ".", "c">>, <<"A", "@", "b", ".", "c">>, <<"b", "a", "d">>}

\* Incidents of one provider as mapItem leaves them, reduced to what the
\* comparator reads and a title to tell them apart: two severities, and a
\* publishedAt that is missing, parsable (old, new) or not parsable.
SortSeverities == {"critical", "high"}
SortDates == {"", "d1", "d3", "soon"}
SortCandidates ==
    {[title |-> <<sev, date>>, severity |-> sev, publishedAt |-> date] :
        sev \in SortSeverities, date \in SortDates}
SortInputs ==
    UNION {[1..n -> SortCandidates] : n \in 0..MaxItems}

\* Pieces of the titles and summaries the classifier is applied to.
Phrases ==
    {<<"R", "e", "s", "o", "l", "v", "e", "d">>,
     <<"m", "i", "t", "i", "g", "a", "t", "e", "d">>,
     <<"r", "e", "s", "t", "o", "r", "e", "d">>,
     <<"s", "t", "a", "b", "i", "l", "i", "z", "e", "d">>,
     <<"r", "e", "c", "o", "v", "e", "r", "i", "n", "g">>,
     <<"R", "e", "c", "o", "v", "e", "r", "y", " ", "c", "o", "m", "p", "l", "e", "t", "e">>,
     <<"I", "n", "v", "e", "s", "t", "i", "g", "a", "t", "i", "n", "g">>,
     <<"m", "a", "i", "n", "t", "e", "n", "a", "n", "c", "e">>,
     <<"d", "e", "g", "r", "a", "d", "a", "t", "i", "o", "n">>,
     <<"i", "n", "c", "i", "d", "e", "n", "t">>,
     <<"O", "u", "t", "a", "g", "e">>,
     <<"u", "n", "a", "v", "a", "i", "l", "a", "b", "l", "e">>,
     <<"c", "o", "m", "p", "l", "e", "t", "e", " ", "f", "a", "i", "l", "u", "r", "e">>,
     <<"f", "a", "i", "l", "u", "r", "e">>,
     <<"u", "n", "a", "b", "l", "e">>,
     <<"m", "a", "j", "o", "r">>,
     <<"m", "u", "l", "t", "i", "p", "l", "e", " ", "r", "e", "g", "i", "o", "n", "s">>,
     <<"d", "e", "p", "e", "n", "d", "e", "n", "t", " ", "s", "e", "r", "v", "i", "c", "e">>,
     <<"r", "e", "g", "i", "o", "n">>,
     <<"i", "m", "p", "a", "c", "t", "e", "d">>,
     <<"E", "a", "s", "t", " ", "U", "S">>,
     <<"W", "e", "s", "t", " ", "U", "S">>,
     <<"a", "n", "d">>,
     <<"d", "e", "g", "r", "a", "d", "e", "d">>,
     <<"i", "n", "t", "e", "r", "m", "i", "t", "t", "e", "n", "t">>,
     <<"d", "e", "l", "a", "y", "s">>,
     <<"e", "l", "e", "v", "a", "t", "e", "d", " ", "l", "a", "t", "e", "n", "c", "y">>,
     <<"u", "p", "d", "a", "t", "e">>}

\* item.title: missing, empty, one phrase, or two phrases with a space
TitleInputs ==
    {Undefined, <<>>} \cup Phrases
        \cup {p \o <<" ">> \o q : p \in Phrases, q \in Phrases}

\* the summary, or a missing second argument
ContentInputs ==
    {Undefined, <<>>,
     <<"W", "e", "s", "t", " ", "U", "S">>,
     <<"E", "a", "s", "t", " ", "U", "S", " ", "2">>,
     <<"O", "u", "t", "a", "g", "e">>,
     <<"R", "e", "s", "o", "l", "v", "e", "d">>,
     <<"i", "m", "p", "a", "c", "t", "e", "d">>}

\* Deployments: ENABLE_NOTIFICATIONS, DISCORD_WEBHOOK_URL, TEAMS_WEBHOOK_URL,
\* ENABLE_EMAIL_NOTIFICATIONS, EMAIL_SMTP_USER && EMAIL_SMTP_PASS, DATABASE_URL
Configs ==
    {[notifications |-> TRUE, discord |-> FALSE, teams |-> TRUE,
      email |-> FALSE, smtp |-> FALSE, pool |-> FALSE],
     [notifications |-> FALSE, discord |-> FALSE, teams |-> FALSE,
      email |-> TRUE, smtp |-> TRUE, pool |-> FALSE],
     [notifications |-> FALSE, discord |-> FALSE, teams |-> FALSE,
      email |-> FALSE, smtp |-> FALSE, pool |-> TRUE],
     [notifications |-> TRUE, discord |-> TRUE, teams |-> FALSE,
      email |-> TRUE, smtp |-> TRUE, pool |-> FALSE]}

\* ------------------------------------------------------ migration runner
\* UTF-16 code units of the characters of the file names of the model
CharCode(c) ==
    CASE c = "." -> 46 [] c = "0" -> 48 [] c = "1" -> 49 [] c = "2" -> 50
      [] c = "R" -> 82 [] c = "d" -> 100 [] c = "j" -> 106 [] c = "m" -> 109
      [] c = "s" -> 115 [] OTHER -> 0

\* a < b for two strings, as Array.prototype.sort() without a comparator
\* decides it: by code unit, a proper prefix first
RECURSIVE StringLess(_, _)
StringLess(a, b) ==
    IF b = <<>> THEN FALSE
    ELSE IF a = <<>> THEN TRUE
    ELSE IF a[1] # b[1] THEN CharCode(a[1]) < CharCode(b[1])
    ELSE StringLess(Tail(a), Tail(b))

\* f.endsWith(suffix)
endsWith(f, suffix) ==
    /\ Len(f) >= Len(suffix)
    /\ SubSeq(f, Len(f) - Len(suffix) + 1, Len(f)) = suffix

\* a sort of the names by their length first, as numbers are ordered
RECURSIVE sortByLength(_)
sortByLength(names) ==
    IF names = {} THEN <<>>
    ELSE LET first == CHOOSE f \in names :
                         \A g \in names \ {f} :
                            Len(f) < Len(g) \/ (Len(f) = Len(g) /\ StringLess(f, g))
         IN  <<first>> \o sortByLength(names \ {first})

\* .sort(): the names in ascending order
RECURSIVE sort(_)
sort(names) ==
    IF names = {} THEN <<>>
    ELSE LET first == CHOOSE f \in names : \A g \in names \ {f} : StringLess(f, g)
         IN  <<first>> \o sort(names \ {first})

\* fs.readdirSync(migrationsDir).filter(f => f.endsWith('.js')).sort()
getMigrationFiles(dir) == sort({f \in dir : endsWith(f, <<".", "j", "s">>)})

\* array.includes(value)
arrayIncludes(array, value) == \E i \in DOMAIN array : array[i] = value

\* array.filter(keep), for keep given as the set of the values to keep
RECURSIVE arrayFilter(_, _)
arrayFilter(array, keep) ==
    IF array = <<>> THEN <<>>
    ELSE (IF array[1] \in keep THEN <<array[1]>> ELSE <<>>) \o arrayFilter(Tail(array), keep)

\* migrationFiles.filter(file => !appliedMigrations.includes(file))
pendingMigrations(migrationFiles, appliedMigrations) ==
    arrayFilter(migrationFiles,
                {f \in {migrationFiles[i] : i \in DOMAIN migrationFiles} :
                    ~ arrayIncludes(appliedMigrations, f)})

\* Files the directory server/migrations can hold: the migration of the
\* repository, two that a developer adds later, and the README.
InitialSchema == <<"0", "0", "1", ".", "j", "s">>
LaterMigrations == {<<"1", "0", ".", "j", "s">>, <<"2", ".", "j", "s">>}
Readme == <<"R", ".", "m", "d">>

\* Deployments with ENABLE_EMAIL_NOTIFICATIONS set, with and without the
\* credentials of the transport and with and without the webhook notifier
MailConfigs ==
    {[notifications |-> FALSE, discord |-> FALSE, teams |-> FALSE,
      email |-> TRUE, smtp |-> TRUE, pool |-> FALSE],
     [notifications |-> FALSE, discord |-> FALSE, teams |-> FALSE,
      email |-> TRUE, smtp |-> FALSE, pool |-> FALSE],
     [notifications |-> TRUE, discord |-> TRUE, teams |-> FALSE,
      email |-> TRUE, smtp |-> TRUE, pool |-> FALSE]}

\* A deployment with both chat targets: ENABLE_NOTIFICATIONS,
\* DISCORD_WEBHOOK_URL and TEAMS_WEBHOOK_URL set, nothing else
ChatConfigs ==
    {[notifications |-> TRUE, discord |-> TRUE, teams |-> TRUE,
      email |-> FALSE, smtp |-> FALSE, pool |-> FALSE]}

\* Deployments with a pool and the email notifier, with and without the
\* webhook notifier
SharedConfigs ==
    {[notifications |-> n, discord |-> n, teams |-> FALSE,
      email |-> TRUE, smtp |-> TRUE, pool |-> TRUE] : n \in BOOLEAN}

\* req.body?.email of the requests made to the subscription routes while
\* refresh cycles run
DigestRequestEmails == {<<"a", "@", "b", ".", "c">>, <<"x", "@", "y", ".", "z">>}

ChatTargets == {"discord", "teams"}

\* ------------------------------------------------------------------ state
\* One step of the model is one task of the event loop: a callback (a
\* request, a timer, the answer of a socket) together with the
\* continuations it makes ready, which JavaScript runs before the next
\* callback.  A step therefore ends where the code awaits something that
\* is still pending.
VARIABLES
    config,            \* the environment the process was started with
    now,               \* Date.now(), in units of CACHE_TTL_MS
    nextTimer,         \* when the setInterval callback is next due
    cache,             \* let cache
    refreshInFlight,   \* 0 for null, else the number of the cycle's promise
    cycleNo,           \* number of refresh cycles started
    promise,           \* state of the promise of cycle cycleNo
    rejection,         \* message of the error that rejected it
    phase,             \* the await at which the body of the cycle stands
    results,           \* results of Promise.allSettled, per source
    nextCache,         \* const nextCache
    batch,             \* const batch of notifyOnNewIncidents while its messages are out
    tasks,             \* webhook deliveries of the running cycle, per target
    mail,              \* the sendMail call in flight
    saveIdx,           \* index of the incident whose upsert is in flight
    sentIncidentIds,   \* const sentIncidentIds
    subscriberEmails,  \* const subscriberEmails
    dbSubscribers,     \* table subscribers: its email column
    dbIncidents,       \* table incidents
    subOps,            \* INSERT and DELETE queries on subscribers that are out
    loads,             \* loadSubscribers calls that have not returned
    subResponses,      \* the responses of the subscription routes sent by the last step
    sortRun,           \* a call of items.sort: the items and, once it returned, the result
    classifyRun,       \* a call of the classifier: its arguments and, once it returned, its results
    migrationsDir,     \* the names of the files in server/migrations
    schemaMigrations,  \* table schema_migrations: its names, ordered by id
    dbSchema,          \* what the database holds of the objects each migration creates
    migrate,           \* the run of the migration command, and history of the runs
    dbClock,           \* NOW() of the database
    lastSave,          \* history: the last saveIncidentsToDatabase that ran to its end
    unsubscribed,      \* history: addresses unsubscribed while a startup load was out, not subscribed since
    rememberCall,      \* a call of rememberIncident: its argument and the ledger before it
    waiters,           \* GET /api/incidents requests awaiting a refresh, oldest first
    responses,         \* the HTTP responses sent by the last step, in order
    publishedBy,       \* history: the cycle that assigned the current cache
    startCache,        \* history: the cache when the running cycle started
    executing,         \* history: bodies of refresh cycles running
    fetchCalls,        \* history: parseURL calls per source so far
    notifyFailed,      \* history: a delivery of the running cycle failed
    notifiedCount,     \* history: webhook messages that included an identity
    evictedCount,      \* history: evictions of an identity from the ledger
    digests            \* history: sendMail calls of the cycle last started

vars == <<config, now, nextTimer, cache, refreshInFlight, cycleNo, promise, rejection,
          phase, results, nextCache, batch, tasks, mail, saveIdx, sentIncidentIds,
          subscriberEmails, dbSubscribers, dbIncidents, subOps, loads, subResponses,
          sortRun, classifyRun, migrationsDir, schemaMigrations, dbSchema, migrate,
          rememberCall, dbClock, lastSave, unsubscribed, waiters,
          responses, publishedBy, startCache, executing, fetchCalls, notifyFailed,
          notifiedCount, evictedCount, digests>>

\* ------------------------------------------------------- state helpers
\* let cache = { updatedAt: 0, providers: [], errors: [] }
InitialCache == [updatedAt |-> 0, providers |-> <<>>, errors |-> <<>>]

\* no saveIncidentsToDatabase has run to its end without an error
NoSave == [complete |-> FALSE, list |-> <<>>, table |-> {}]

NoMail == [bcc |-> <<>>, newIncidents |-> <<>>, statusChanges |-> <<>>]
NoTasks == [t \in ChatTargets |-> "none"]
NoResults == [i \in FeedIx |-> Pending]

\* identities the feeds of the model can produce
KnownIds == UNION {IdsOf(o.items) : o \in UNION {Outcomes(i) : i \in FeedIx}}

\* const emailTransporter = ENABLE_EMAIL_NOTIFICATIONS && user && pass ? ... : null
emailTransporter == config.email /\ config.smtp

\* a staleness test that counts an age of exactly the TTL as stale
IsStaleAtTTL(dateNow, updatedAt) == dateNow - updatedAt >= CACHE_TTL_MS

\* Date.now() - cache.updatedAt > CACHE_TTL_MS
IsStale(dateNow, updatedAt) == dateNow - updatedAt > CACHE_TTL_MS

\* a refreshCache without the guard on the handle
InFlightIgnored(handle) == FALSE

\* if (refreshInFlight) return refreshInFlight;
InFlight(handle) == handle # 0

\* res.json(data)
OkBody(data) ==
    [code |-> 200, updatedAt |-> data.updatedAt, providers |-> data.providers,
     errors |-> data.errors]

\* an error response that carries no snapshot data
ErrorBodyBare(current, message) ==
    [code |-> 500, updatedAt |-> 0, providers |-> <<>>,
     errors |-> <<[message |-> OrStr(message, "Unexpected server error")]>>]

\* res.status(500).json({ updatedAt, providers, errors: [{ message }] })
ErrorBody(current, message) ==
    [code |-> 500, updatedAt |-> current.updatedAt, providers |-> current.providers,
     errors |-> <<[message |-> OrStr(message, "Unexpected server error")]>>]

\* res.json({ status: "ok", updatedAt: cache.updatedAt })
HealthBody(current) ==
    [code |-> 200, updatedAt |-> current.updatedAt, providers |-> <<>>, errors |-> <<>>]

\* A response as the model records it: the body, the request it answers
\* (route, whether the cache was stale when the request came in, the cycle
\* whose promise the request awaited, 0 if none) and the cycle that had
\* assigned the cache when the response was built.
Response(route, stale, cycle, pub, body) ==
    [route |-> route, stale |-> stale, cycle |-> cycle, pub |-> pub, body |-> body]

\* a publication field by field that leaves the errors of the old snapshot
PublishValueTorn(current, candidate) == [candidate EXCEPT !.errors = current.errors]

\* cache = nextCache
PublishValue(current, candidate) == candidate

\* ------------------------------------------------- persistence of incidents
\* for (const incident of allIncidents) { if (!incident.id) continue; ...
\* the next incident at or after position from that is upserted, 0 if none
NextSaveIdx(list, from) ==
    LET rest == {i \in DOMAIN list : i >= from /\ list[i].id # <<>>}
    IN  IF rest = {} THEN 0 ELSE CHOOSE i \in rest : \A j \in rest : i <= j

\* INSERT INTO incidents ... ON CONFLICT (id) DO UPDATE SET status, severity,
\* summary, last_updated_at = NOW() WHERE one of the three differs; a new
\* row takes first_seen_at and last_updated_at from their DEFAULT NOW()
upsertIncident(table, incident, dbNow) ==
    IF \E row \in table : row.id = incident.id
    THEN LET old == CHOOSE row \in table : row.id = incident.id
         IN  IF \/ old.status # incident.status
                \/ old.severity # incident.severity
                \/ old.summary # incident.summary
             THEN (table \ {old}) \cup
                    {[old EXCEPT !.status = incident.status,
                                 !.severity = incident.severity,
                                 !.summary = incident.summary,
                                 !.lastUpdatedAt = dbNow]}
             ELSE table
    ELSE table \cup
           {[id |-> incident.id, provider |-> incident.provider,
             source |-> incident.source, title |-> incident.title,
             summary |-> incident.summary, status |-> incident.status,
             severity |-> incident.severity, link |-> incident.link,
             publishedAt |-> incident.publishedAt,
             firstSeenAt |-> dbNow, lastUpdatedAt |-> dbNow]}

\* ----------------------------------------------------- the refresh cycle
\* The body of the async function of refreshCache, cut at its awaits.  Each
\* operator below takes the variables the body reads and writes as a
\* record, runs the code from one point up to the next await that has to
\* wait, and returns the record.
CycleState ==
    [cache |-> cache, refreshInFlight |-> refreshInFlight, cycleNo |-> cycleNo,
     promise |-> promise,
     rejection |-> rejection, phase |-> phase, results |-> results,
     nextCache |-> nextCache, batch |-> batch, tasks |-> tasks, mail |-> mail,
     saveIdx |-> saveIdx,
     sentIncidentIds |-> sentIncidentIds, waiters |-> waiters, responses |-> <<>>,
     publishedBy |-> publishedBy, startCache |-> startCache, executing |-> executing,
     fetchCalls |-> fetchCalls, notifyFailed |-> notifyFailed,
     notifiedCount |-> notifiedCount, evictedCount |-> evictedCount,
     digests |-> digests]

Install(st) ==
    /\ cache' = st.cache
    /\ refreshInFlight' = st.refreshInFlight
    /\ cycleNo' = st.cycleNo
    /\ promise' = st.promise
    /\ rejection' = st.rejection
    /\ phase' = st.phase
    /\ results' = st.results
    /\ nextCache' = st.nextCache
    /\ batch' = st.batch
    /\ tasks' = st.tasks
    /\ mail' = st.mail
    /\ saveIdx' = st.saveIdx
    /\ sentIncidentIds' = st.sentIncidentIds
    /\ waiters' = st.waiters
    /\ responses' = st.responses
    /\ publishedBy' = st.publishedBy
    /\ startCache' = st.startCache
    /\ executing' = st.executing
    /\ fetchCalls' = st.fetchCalls
    /\ notifyFailed' = st.notifyFailed
    /\ notifiedCount' = st.notifiedCount
    /\ evictedCount' = st.evictedCount
    /\ digests' = st.digests

\* getCache after await refreshCache(): return cache, and res.json(data);
\* the requests continue in the order in which they started to wait
AnswerWaiters(st) ==
    [k \in DOMAIN st.waiters |->
        Response("incidents", TRUE, st.waiters[k].cycle, st.publishedBy, OkBody(st.cache))]

\* the catch block of the route, for every request awaiting the promise
FailWaiters(st, message) ==
    [k \in DOMAIN st.waiters |->
        Response("incidents", TRUE, st.waiters[k].cycle, st.publishedBy,
                 ErrorBody(st.cache, message))]

\* refreshInFlight = null; return cache;
FinishCycle(st) ==
    [st EXCEPT !.refreshInFlight = 0,
               !.promise = "fulfilled",
               !.phase = "idle",
               !.saveIdx = 0,
               !.executing = st.executing - 1,
               !.notifyFailed = FALSE,
               !.startCache = st.cache,
               !.waiters = <<>>,
               !.responses = AnswerWaiters(st)]

\* an await of the body threw: the promise of the cycle is rejected and
\* nothing on the way assigns refreshInFlight
RejectCycle(st, message) ==
    [st EXCEPT !.promise = "rejected",
               !.rejection = message,
               !.phase = "idle",
               !.executing = st.executing - 1,
               !.waiters = <<>>,
               !.responses = FailWaiters(st, message)]

\* cache = nextCache; await saveIncidentsToDatabase(nextCache);
PublishAndSave(st) ==
    LET published == [st EXCEPT !.cache = PublishValue(st.cache, st.nextCache),
                                !.publishedBy = st.cycleNo]
        first == NextSaveIdx(flattenIncidents(st.nextCache), 1)
    IN  IF ~ config.pool \/ first = 0
        THEN FinishCycle(published)
        ELSE [published EXCEPT !.phase = "save_wait", !.saveIdx = first]

\* a list of recipients that stops after the first member of the Set
digestRecipientsFirst(set) == SubSeq(set, 1, 1)

\* bcc: Array.from(subscriberEmails)
digestRecipients(set) == set

\* a guard of the notifier that does not look at the Set
NoRecipientsIgnored(set) == FALSE

\* subscriberEmails.size === 0
NoRecipients(set) == Len(set) = 0

\* if (ENABLE_EMAIL_NOTIFICATIONS) await notifyOnNewIncidentsByEmail(cache, nextCache);
CallEmailNotifier(st) ==
    LET newIncidents == emailNewIncidents(st.cache, st.nextCache, st.sentIncidentIds)
        statusChanges == emailStatusChanges(st.cache, st.nextCache)
    IN  IF \/ ~ config.email
           \/ ~ emailTransporter
           \/ NoRecipients(subscriberEmails)
           \/ (newIncidents = <<>> /\ statusChanges = <<>>)
        THEN PublishAndSave(st)
        ELSE [st EXCEPT !.phase = "mail_wait",
                        !.digests = st.digests + 1,
                        !.mail = [bcc |-> digestRecipients(subscriberEmails),
                                  newIncidents |-> buildIncidentLines(firstBatch(newIncidents)),
                                  statusChanges |-> firstBatch(statusChanges)]]

\* identities evicted while remembering the incidents, in order
RECURSIVE evictedBy(_, _)
evictedBy(ledger, incidents) ==
    IF incidents = <<>> THEN <<>>
    ELSE LET id == incidents[1].id
             full == id # <<>> /\ ~ InLedger(ledger, id) /\ Len(ledger) + 1 > MAX_SENT_IDS
         IN  (IF full THEN <<ledger[1]>> ELSE <<>>)
                 \o evictedBy(rememberIncident(ledger, id), Tail(incidents))

CountIn(seq, x) == Cardinality({i \in DOMAIN seq : seq[i] = x})

\* a notifier that posts to the second target only when the first has no URL
firstChatTarget(cfg) ==
    IF cfg["discord"] THEN {"discord"} ELSE {t \in ChatTargets : cfg[t]}

\* if (DISCORD_WEBHOOK_URL) tasks.push(fetch(...)); if (TEAMS_WEBHOOK_URL) tasks.push(fetch(...));
chatTargets(cfg) == {t \in ChatTargets : cfg[t]}

\* if (ENABLE_NOTIFICATIONS) await notifyOnNewIncidents(cache, nextCache);
CallWebhookNotifier(st) ==
    LET newIncidents == webhookNewIncidents(st.cache, st.nextCache, st.sentIncidentIds)
        sliced == firstBatch(newIncidents)
        targets == chatTargets(config)
        remembered ==
            [st EXCEPT !.sentIncidentIds = rememberAll(st.sentIncidentIds, newIncidents),
                       !.evictedCount =
                           [id \in KnownIds |->
                               st.evictedCount[id]
                                 + CountIn(evictedBy(st.sentIncidentIds, newIncidents), id)]]
    IN  IF ~ config.notifications \/ newIncidents = <<>>
        THEN CallEmailNotifier(st)
        ELSE IF targets = {}
        THEN CallEmailNotifier(remembered)
        ELSE [remembered EXCEPT
                 !.phase = "webhook_wait",
                 !.batch = sliced,
                 !.tasks = [t \in ChatTargets |-> IF t \in targets THEN "pending" ELSE "none"],
                 !.notifiedCount =
                     [id \in KnownIds |->
                         IF id \in IdsOf(sliced) THEN st.notifiedCount[id] + 1
                         ELSE st.notifiedCount[id]]]

\* results.forEach ... const nextCache = { updatedAt: Date.now(), providers, errors };
MergeResults(st) ==
    CallWebhookNotifier([st EXCEPT !.nextCache = buildNextCache(st.results, now)])

\* refreshInFlight = (async () => { ... })(): the body starts and sends
\* every fetch
StartCycle(st) ==
    [st EXCEPT !.refreshInFlight = st.cycleNo + 1,
               !.cycleNo = st.cycleNo + 1,
               !.promise = "pending",
               !.rejection = "",
               !.phase = "fetch",
               !.results = NoResults,
               !.nextCache = InitialCache,
               !.batch = <<>>,
               !.tasks = NoTasks,
               !.mail = NoMail,
               !.saveIdx = 0,
               !.startCache = st.cache,
               !.executing = st.executing + 1,
               !.fetchCalls = [i \in FeedIx |-> st.fetchCalls[i] + 1],
               !.notifyFailed = FALSE,
               !.digests = 0]

\* ------------------------------------------------------------------ steps
\* Promise.allSettled(FEEDS.map(...)) resolves: every parser.parseURL has
\* settled, each with an outcome of its own.  The body reads no result
\* before that, so the order in which the sources answer is no state.
FetchOutcomes ==
    {<<o1, o2, o3, o4>> :
        o1 \in Outcomes(1), o2 \in Outcomes(2), o3 \in Outcomes(3), o4 \in Outcomes(4)}

FetchSettle(outcomes) ==
    /\ phase = "fetch"
    /\ Install(MergeResults([CycleState EXCEPT !.results = outcomes]))
    /\ UNCHANGED <<config, now, nextTimer, subscriberEmails, dbSubscribers, dbIncidents,
                   subOps, loads, subResponses, sortRun, classifyRun, migrationsDir,
                   schemaMigrations, dbSchema, migrate, rememberCall, dbClock, lastSave,
                   unsubscribed>>

\* the POST to chat target t settles; with the last one
\* Promise.allSettled(tasks) resolves, whatever the outcomes
WebhookSettle(t, ok) ==
    /\ phase = "webhook_wait"
    /\ tasks[t] = "pending"
    /\ LET settled == [CycleState EXCEPT !.tasks[t] = IF ok THEN "ok" ELSE "failed",
                                         !.notifyFailed = notifyFailed \/ ~ ok]
       IN  IF \A u \in ChatTargets : settled.tasks[u] # "pending"
           THEN Install(CallEmailNotifier([settled EXCEPT !.tasks = NoTasks, !.batch = <<>>]))
           ELSE Install(settled)
    /\ UNCHANGED <<config, now, nextTimer, subscriberEmails, dbSubscribers, dbIncidents,
                   subOps, loads, subResponses, sortRun, classifyRun, migrationsDir,
                   schemaMigrations, dbSchema, migrate, rememberCall, dbClock, lastSave,
                   unsubscribed>>

\* messages of the errors sendMail rejects with
MailErrors == {"Invalid login"}

\* sendMail resolved
MailDelivered ==
    /\ phase = "mail_wait"
    /\ Install(PublishAndSave([CycleState EXCEPT !.mail = NoMail]))
    /\ UNCHANGED <<config, now, nextTimer, subscriberEmails, dbSubscribers, dbIncidents,
                   subOps, loads, subResponses, sortRun, classifyRun, migrationsDir,
                   schemaMigrations, dbSchema, migrate, rememberCall, dbClock, lastSave,
                   unsubscribed>>

\* sendMail rejected: neither notifyOnNewIncidentsByEmail nor the body of
\* the cycle catches the error
MailFailed(message) ==
    /\ phase = "mail_wait"
    /\ Install(RejectCycle([CycleState EXCEPT !.mail = NoMail, !.notifyFailed = TRUE],
                           message))
    /\ UNCHANGED <<config, now, nextTimer, subscriberEmails, dbSubscribers, dbIncidents,
                   subOps, loads, subResponses, sortRun, classifyRun, migrationsDir,
                   schemaMigrations, dbSchema, migrate, rememberCall, dbClock, lastSave,
                   unsubscribed>>

\* a saveIncidentsToDatabase without its try block: the error of the query
\* leaves the function and the body of the cycle
SaveErrorThrown(st) == RejectCycle(st, "Connection terminated")

\* a catch block that puts back the snapshot of before the cycle
SaveErrorRollsBack(st) == FinishCycle([st EXCEPT !.cache = st.startCache])

\* catch (error) { console.warn(...) }: saveIncidentsToDatabase returns and
\* the body of the cycle goes on
SaveErrorCaught(st) == FinishCycle(st)

\* the upsert of incident saveIdx settles: the loop goes on, or the catch
\* block logs the error and saveIncidentsToDatabase returns
SaveQuery(ok) ==
    /\ phase = "save_wait"
    /\ LET list == flattenIncidents(nextCache)
           next == NextSaveIdx(list, saveIdx + 1)
       IN  IF ok
           THEN /\ dbIncidents' = upsertIncident(dbIncidents, list[saveIdx], dbClock)
                /\ IF next = 0
                   THEN /\ Install(FinishCycle(CycleState))
                        /\ lastSave' = [complete |-> TRUE, list |-> list,
                                        table |-> dbIncidents']
                   ELSE /\ Install([CycleState EXCEPT !.saveIdx = next])
                        /\ lastSave' = lastSave
           ELSE /\ dbIncidents' = dbIncidents
                /\ lastSave' = NoSave
                /\ Install(SaveErrorCaught(CycleState))
    /\ UNCHANGED <<config, now, nextTimer, subscriberEmails, dbSubscribers, subOps, loads,
                   subResponses, sortRun, classifyRun, migrationsDir, schemaMigrations,
                   dbSchema, migrate, rememberCall, dbClock, unsubscribed>>

\* the call refreshCache() of a trigger that does not wait for the result
RefreshCache(st) == IF InFlight(st.refreshInFlight) THEN st ELSE StartCycle(st)

\* setInterval(() => { refreshCache().catch(() => null); }, CACHE_TTL_MS):
\* the callback runs once the interval has elapsed, and the timer is set
\* again from the time at which it ran
TimerFire ==
    /\ now >= nextTimer
    /\ nextTimer' = now + CACHE_TTL_MS
    /\ Install(RefreshCache(CycleState))
    /\ UNCHANGED <<config, now, subscriberEmails, dbSubscribers, dbIncidents, subOps,
                   loads, subResponses, sortRun, classifyRun, migrationsDir,
                   schemaMigrations, dbSchema, migrate, rememberCall, dbClock, lastSave,
                   unsubscribed>>

\* GET /api/incidents: getCache().  A fresh cache is sent at once.  With a
\* stale one the request awaits refreshCache(): the promise in flight, or
\* the one of the cycle it starts; a promise that is already rejected
\* throws at once and the catch block answers.
ReadIncidents ==
    /\ IF ~ IsStale(now, cache.updatedAt)
       THEN Install([CycleState EXCEPT
                        !.responses = <<Response("incidents", FALSE, 0, publishedBy,
                                                 OkBody(cache))>>])
       ELSE IF InFlight(refreshInFlight) /\ promise = "rejected"
       THEN Install([CycleState EXCEPT
                        !.responses = <<Response("incidents", TRUE, refreshInFlight,
                                                 publishedBy, ErrorBody(cache, rejection))>>])
       ELSE /\ Len(waiters) < MaxReaders
            /\ LET st == RefreshCache(CycleState)
               IN  Install([st EXCEPT
                               !.waiters = Append(st.waiters, [cycle |-> st.refreshInFlight])])
    /\ UNCHANGED <<config, now, nextTimer, subscriberEmails, dbSubscribers, dbIncidents,
                   subOps, loads, subResponses, sortRun, classifyRun, migrationsDir,
                   schemaMigrations, dbSchema, migrate, rememberCall, dbClock, lastSave,
                   unsubscribed>>

\* GET /api/health
Health ==
    /\ Install([CycleState EXCEPT
                   !.responses = <<Response("health", FALSE, 0, publishedBy, HealthBody(cache))>>])
    /\ UNCHANGED <<config, now, nextTimer, subscriberEmails, dbSubscribers, dbIncidents,
                   subOps, loads, subResponses, sortRun, classifyRun, migrationsDir,
                   schemaMigrations, dbSchema, migrate, rememberCall, dbClock, lastSave,
                   unsubscribed>>

\* time passes
Tick ==
    /\ now < MaxTime
    /\ now' = now + 1
    /\ responses' = <<>>
    /\ UNCHANGED <<config, nextTimer, cache, refreshInFlight, cycleNo, promise, rejection,
                   phase, results, nextCache, batch, tasks, mail, saveIdx, sentIncidentIds,
                   subscriberEmails, dbSubscribers, dbIncidents, subOps, loads,
                   subResponses, sortRun, classifyRun, migrationsDir, schemaMigrations,
                   dbSchema, migrate, rememberCall, dbClock, lastSave, unsubscribed,
                   waiters, publishedBy, startCache, executing, fetchCalls, notifyFailed,
                   notifiedCount, evictedCount, digests>>

\* no call of rememberIncident is followed on its own
NoRemember == [id |-> <<>>, before |-> <<>>, called |-> FALSE]

\* ------------------------------------------------------------ specification
\* The state once the module has been evaluated: refreshCache() has been
\* called (line 308) and its fetches are out; subscriberEmails holds the
\* addresses loaded or subscribed before the first fetch settles.
\* Date.now() is more than one TTL after the epoch.
InitCycle ==
    /\ now = CACHE_TTL_MS + 1
    /\ nextTimer = now + CACHE_TTL_MS
    /\ cache = InitialCache
    /\ refreshInFlight = 1
    /\ cycleNo = 1
    /\ promise = "pending"
    /\ rejection = ""
    /\ phase = "fetch"
    /\ results = NoResults
    /\ nextCache = InitialCache
    /\ batch = <<>>
    /\ tasks = NoTasks
    /\ mail = NoMail
    /\ saveIdx = 0
    /\ sentIncidentIds = <<>>
    /\ dbIncidents = {}
    /\ waiters = <<>>
    /\ responses = <<>>
    /\ publishedBy = 0
    /\ startCache = InitialCache
    /\ executing = 1
    /\ fetchCalls = [i \in FeedIx |-> 1]
    /\ notifyFailed = FALSE
    /\ notifiedCount = [id \in KnownIds |-> 0]
    /\ evictedCount = [id \in KnownIds |-> 0]
    /\ digests = 0
    /\ rememberCall = NoRemember
    /\ lastSave = NoSave
    /\ dbClock = 0

\* no request to a subscription route has been made and no query is out
InitNoSubs ==
    /\ dbSubscribers = {}
    /\ subOps = <<>>
    /\ loads = <<>>
    /\ subResponses = <<>>
    /\ unsubscribed = {}

NoSort == [items |-> <<>>, sorted |-> <<>>, done |-> FALSE]
NoClassify ==
    [title |-> <<>>, content |-> <<>>, status |-> "", severity |-> "", done |-> FALSE]

\* no call of the sort or of the classifier is followed on its own
InitNoCalls ==
    /\ sortRun = NoSort
    /\ classifyRun = NoClassify

MigrationNames == {InitialSchema} \cup LaterMigrations

\* no migration command has been run: the directory as the repository
\* ships it, and a database without the objects of any migration
NoMigrate ==
    [command |-> "none", stage |-> "idle", pending |-> <<>>, idx |-> 0, exitCode |-> 0,
     applied |-> <<>>, before |-> <<>>, dir |-> {},
     afterUp |-> FALSE, lastUpOk |-> FALSE,
     roundValid |-> FALSE, roundBase |-> <<>>, roundN |-> 0, roundDowns |-> 0]

InitNoMigration ==
    /\ migrationsDir = {InitialSchema, Readme}
    /\ schemaMigrations = <<>>
    /\ dbSchema = [f \in MigrationNames |-> "absent"]
    /\ migrate = NoMigrate

Init ==
    /\ InitNoMigration
    /\ config \in Configs
    /\ InitCycle
    /\ subscriberEmails \in (IF emailTransporter THEN OrdersOf(Subscribers) ELSE {<<>>})
    /\ InitNoSubs
    /\ InitNoCalls

Next ==
    \/ \E outcomes \in FetchOutcomes : FetchSettle(outcomes)
    \/ \E t \in ChatTargets, ok \in BOOLEAN : WebhookSettle(t, ok)
    \/ MailDelivered
    \/ \E message \in MailErrors : MailFailed(message)
    \/ \E ok \in BOOLEAN : SaveQuery(ok)
    \/ TimerFire
    \/ ReadIncidents
    \/ Health
    \/ Tick

Spec == Init /\ [][Next]_vars


\* What the event loop guarantees: time passes and a callback that is due
\* runs.  The
\* parser gives up a fetch after 15000 ms (lines 33-38), so the fetches of
\* a cycle settle and the body leaves its first await; FetchesSettle is
\* that step, the only one that changes phase from "fetch".  The POSTs to
\* the chat targets, sendMail and the queries of the pool are given no
\* timeout by this code; the specification below grants that fetch,
\* nodemailer and pg end each of them, by an answer or by an error.
FetchesSettle ==
    /\ phase = "fetch"
    /\ phase' \in {"webhook_wait", "mail_wait", "save_wait", "idle"}

Fairness ==
    /\ WF_phase(FetchesSettle)
    /\ WF_vars(\E t \in ChatTargets, ok \in BOOLEAN : WebhookSettle(t, ok))
    /\ WF_vars(MailDelivered \/ \E message \in MailErrors : MailFailed(message))
    /\ WF_vars(\E ok \in BOOLEAN : SaveQuery(ok))
    /\ WF_vars(TimerFire)
    /\ WF_vars(Tick)

SpecLive == Spec /\ Fairness

\* ------------------------------------------------------ subscriber store
\* A response of a subscription route: the status code and the email or
\* the count of its body.
SubResponse(route, code, email, count) ==
    [route |-> route, code |-> code, email |-> email, count |-> count]

RemoveAt(seq, i) == SubSeq(seq, 1, i - 1) \o SubSeq(seq, i + 1, Len(seq))

\* GET /api/subscriptions/email
SubscriberCount ==
    /\ subResponses' = <<SubResponse("count", 200, <<>>, Len(subscriberEmails))>>
    /\ UNCHANGED <<config, now, nextTimer, cache, refreshInFlight, cycleNo, promise,
                   rejection, phase, results, nextCache, batch, tasks, mail, saveIdx,
                   sentIncidentIds, subscriberEmails, dbSubscribers, dbIncidents, subOps,
                   loads, sortRun, classifyRun, migrationsDir, schemaMigrations, dbSchema,
                   migrate, rememberCall, dbClock, lastSave, unsubscribed, waiters,
                   responses, publishedBy, startCache, executing, fetchCalls, notifyFailed,
                   notifiedCount, evictedCount, digests>>

\* POST /api/subscriptions/email: validation, then addSubscriber up to its
\* await; without a pool addSubscriber returns and the route answers
Subscribe(raw) ==
    /\ LET email == normalizeEmail(raw)
       IN  IF ~ isValidEmail(email)
           THEN /\ subResponses' = <<SubResponse("subscribe", 400, email, 0)>>
                /\ UNCHANGED <<subscriberEmails, subOps, unsubscribed>>
           ELSE /\ subscriberEmails' = setAdd(subscriberEmails, email)
                /\ unsubscribed' = unsubscribed \ {email}
                /\ IF config.pool
                   THEN /\ Len(subOps) < MaxSubOps
                        /\ subOps' = Append(subOps, [op |-> "insert", email |-> email])
                        /\ subResponses' = <<>>
                   ELSE /\ subOps' = subOps
                        /\ subResponses' = <<SubResponse("subscribe", 201, email, 0)>>
    /\ UNCHANGED <<config, now, nextTimer, cache, refreshInFlight, cycleNo, promise,
                   rejection, phase, results, nextCache, batch, tasks, mail, saveIdx,
                   sentIncidentIds, dbSubscribers, dbIncidents, loads, sortRun,
                   classifyRun, migrationsDir, schemaMigrations, dbSchema, migrate,
                   rememberCall, dbClock, lastSave, waiters, responses, publishedBy,
                   startCache, executing, fetchCalls, notifyFailed, notifiedCount,
                   evictedCount, digests>>

\* DELETE /api/subscriptions/email: validation, then removeSubscriber up to
\* its await
Unsubscribe(raw) ==
    /\ LET email == normalizeEmail(raw)
       IN  IF ~ isValidEmail(email)
           THEN /\ subResponses' = <<SubResponse("unsubscribe", 400, email, 0)>>
                /\ UNCHANGED <<subscriberEmails, subOps, unsubscribed>>
           ELSE /\ subscriberEmails' = setDelete(subscriberEmails, email)
                /\ unsubscribed' = IF loads # <<>> THEN unsubscribed \cup {email}
                                   ELSE unsubscribed
                /\ IF config.pool
                   THEN /\ Len(subOps) < MaxSubOps
                        /\ subOps' = Append(subOps, [op |-> "delete", email |-> email])
                        /\ subResponses' = <<>>
                   ELSE /\ subOps' = subOps
                        /\ subResponses' = <<SubResponse("unsubscribe", 200, email, 0)>>
    /\ UNCHANGED <<config, now, nextTimer, cache, refreshInFlight, cycleNo, promise,
                   rejection, phase, results, nextCache, batch, tasks, mail, saveIdx,
                   sentIncidentIds, dbSubscribers, dbIncidents, loads, sortRun,
                   classifyRun, migrationsDir, schemaMigrations, dbSchema, migrate,
                   rememberCall, dbClock, lastSave, waiters, responses, publishedBy,
                   startCache, executing, fetchCalls, notifyFailed, notifiedCount,
                   evictedCount, digests>>

\* a catch block that takes the change of the Set back when the query failed
persistErrorUndone(set, op) ==
    IF op.op = "insert" THEN setDelete(set, op.email) ELSE setAdd(set, op.email)

\* catch (error) { console.warn(...) } of addSubscriber and removeSubscriber:
\* the Set is not touched
persistErrorLogged(set, op) == set

\* the query of a subscription request is executed or fails (the catch
\* block logs the error); addSubscriber or removeSubscriber returns and the
\* route answers.  The pool runs the queries that are out in any order.
SubQuery(i, ok) ==
    /\ i \in DOMAIN subOps
    /\ dbSubscribers' =
          IF ~ ok THEN dbSubscribers
          ELSE IF subOps[i].op = "insert" THEN insertSubscriber(dbSubscribers, subOps[i].email)
          ELSE deleteSubscriber(dbSubscribers, subOps[i].email)
    /\ subscriberEmails' =
          IF ok THEN subscriberEmails ELSE persistErrorLogged(subscriberEmails, subOps[i])
    /\ subOps' = RemoveAt(subOps, i)
    /\ subResponses' =
          <<IF subOps[i].op = "insert"
            THEN SubResponse("subscribe", 201, subOps[i].email, 0)
            ELSE SubResponse("unsubscribe", 200, subOps[i].email, 0)>>
    /\ UNCHANGED <<config, now, nextTimer, cache, refreshInFlight, cycleNo, promise,
                   rejection, phase, results, nextCache, batch, tasks, mail, saveIdx,
                   sentIncidentIds, dbIncidents, loads, sortRun, classifyRun,
                   migrationsDir, schemaMigrations, dbSchema, migrate, rememberCall,
                   dbClock, lastSave, unsubscribed, waiters, responses, publishedBy,
                   startCache, executing, fetchCalls, notifyFailed, notifiedCount,
                   evictedCount, digests>>

\* loadSubscribers: a call that waits for its SELECT, and one whose rows
\* are on their way back
LoadSent == [state |-> "select", rows |-> {}]
LoadAnswered(rows) == [state |-> "rows", rows |-> rows]

\* SELECT email FROM subscribers is executed, or fails and the catch block
\* of loadSubscribers logs the error
LoadQuery(i, ok) ==
    /\ i \in DOMAIN loads
    /\ loads[i].state = "select"
    /\ loads' = IF ok THEN [loads EXCEPT ![i] = LoadAnswered(dbSubscribers)]
                ELSE RemoveAt(loads, i)
    /\ subResponses' = <<>>
    /\ unsubscribed' = IF loads' = <<>> THEN {} ELSE unsubscribed
    /\ UNCHANGED <<config, now, nextTimer, cache, refreshInFlight, cycleNo, promise,
                   rejection, phase, results, nextCache, batch, tasks, mail, saveIdx,
                   sentIncidentIds, subscriberEmails, dbSubscribers, dbIncidents, subOps,
                   sortRun, classifyRun, migrationsDir, schemaMigrations, dbSchema,
                   migrate, rememberCall, dbClock, lastSave, waiters, responses,
                   publishedBy, startCache, executing, fetchCalls, notifyFailed,
                   notifiedCount, evictedCount, digests>>

\* the rows arrive, in the order the database chose, and the forEach of
\* loadSubscribers adds them
LoadReturn(i, rows) ==
    /\ i \in DOMAIN loads
    /\ loads[i].state = "rows"
    /\ Len(rows) = Cardinality(loads[i].rows)
    /\ {rows[k] : k \in DOMAIN rows} = loads[i].rows
    /\ subscriberEmails' = addRows(subscriberEmails, rows)
    /\ loads' = RemoveAt(loads, i)
    /\ subResponses' = <<>>
    /\ unsubscribed' = IF loads' = <<>> THEN {} ELSE unsubscribed
    /\ UNCHANGED <<config, now, nextTimer, cache, refreshInFlight, cycleNo, promise,
                   rejection, phase, results, nextCache, batch, tasks, mail, saveIdx,
                   sentIncidentIds, dbSubscribers, dbIncidents, subOps, sortRun,
                   classifyRun, migrationsDir, schemaMigrations, dbSchema, migrate,
                   rememberCall, dbClock, lastSave, waiters, responses, publishedBy,
                   startCache, executing, fetchCalls, notifyFailed, notifiedCount,
                   evictedCount, digests>>

\* The state once the module has been evaluated: as in Init, and the two
\* calls of loadSubscribers (lines 313 and 596) wait for their rows when a
\* pool is configured.
InitSubs ==
    /\ InitNoMigration
    /\ config \in Configs
    /\ InitCycle
    /\ InitNoCalls
    /\ subscriberEmails = <<>>
    /\ dbSubscribers \in (IF config.pool THEN SUBSET StoredRows ELSE {{}})
    /\ subOps = <<>>
    /\ loads = (IF config.pool THEN <<LoadSent, LoadSent>> ELSE <<>>)
    /\ subResponses = <<>>
    /\ unsubscribed = {}

NextSubs ==
    \/ SubscriberCount
    \/ \E raw \in RequestEmails : Subscribe(raw)
    \/ \E raw \in RequestEmails : Unsubscribe(raw)
    \/ \E i \in 1..MaxSubOps, ok \in BOOLEAN : SubQuery(i, ok)
    \/ \E i \in 1..2, ok \in BOOLEAN : LoadQuery(i, ok)
    \/ \E i \in 1..2, rows \in OrdersOf(StoredRows) : LoadReturn(i, rows)

SpecSubs == InitSubs /\ [][NextSubs]_vars

\* ------------------------------------- subscriptions while cycles run
\* The outcomes of the fetches with the last two sources out of reach.
MailFetchOutcomes ==
    {outcomes \in FetchOutcomes :
        outcomes[3].status = "rejected" /\ outcomes[4].status = "rejected"}

\* The process of Init with the email notifier enabled and no pool, and
\* nobody subscribed yet.
InitMail ==
    /\ InitNoMigration
    /\ config \in MailConfigs
    /\ InitCycle
    /\ subscriberEmails = <<>>
    /\ InitNoSubs
    /\ InitNoCalls

\* The steps of the refresh cycle, and between them requests to the
\* subscription routes.
NextMail ==
    \/ \E outcomes \in MailFetchOutcomes : FetchSettle(outcomes)
    \/ \E t \in ChatTargets, ok \in BOOLEAN : WebhookSettle(t, ok)
    \/ MailDelivered
    \/ \E message \in MailErrors : MailFailed(message)
    \/ TimerFire
    \/ ReadIncidents
    \/ Tick
    \/ \E raw \in DigestRequestEmails : Subscribe(raw)
    \/ \E raw \in DigestRequestEmails : Unsubscribe(raw)

SpecMail == InitMail /\ [][NextMail]_vars

\* ------------------------------------------------- the migration command
\* The command is a process of its own: one run at a time, each from its
\* start to the end of the process.  A step is one await of the run.
Last(seq) == seq[Len(seq)]

\* nothing is remembered of an up that other runs or a new file followed
NoRound(run) ==
    [run EXCEPT !.roundValid = FALSE, !.roundBase = <<>>, !.roundN = 0, !.roundDowns = 0]

\* The process ends with the exit code given; the history of the runs
\* (what the last successful up started from and applied, and the down
\* runs that followed it without anything in between) is brought up to date.
Exit(run, code) ==
    LET ended == [run EXCEPT !.stage = "exited", !.exitCode = code]
    IN  IF code = 0 /\ run.command = "up"
        THEN [ended EXCEPT !.lastUpOk = TRUE,
                           !.roundValid = TRUE,
                           !.roundBase = run.before,
                           !.roundN = Len(run.applied),
                           !.roundDowns = 0]
        ELSE IF code = 0 /\ run.roundValid /\ run.roundDowns < run.roundN
        THEN [ended EXCEPT !.lastUpOk = FALSE, !.roundDowns = run.roundDowns + 1]
        ELSE NoRound([ended EXCEPT !.lastUpOk = FALSE])

\* the run that a command starts
NewRun(command) ==
    [migrate EXCEPT !.command = command, !.stage = "start", !.pending = <<>>, !.idx = 0,
                    !.exitCode = 0, !.applied = <<>>, !.before = schemaMigrations,
                    !.dir = migrationsDir,
                    !.afterUp = migrate.lastUpOk]

\* node migrate.js up: runMigrations up to the first migration.up, or to
\* its end when nothing is pending; a query that fails ends the process
\* with code 1
MigrateUpStart(ok) ==
    /\ migrate.stage \in {"idle", "exited"}
    /\ LET appliedMigrations == schemaMigrations
           migrationFiles == getMigrationFiles(migrationsDir)
           pending == pendingMigrations(migrationFiles, appliedMigrations)
           run == NewRun("up")
       IN  migrate' =
              IF ~ ok THEN Exit(run, 1)
              ELSE IF Len(pending) = 0 THEN Exit(run, 0)
              ELSE [run EXCEPT !.stage = "up", !.pending = pending, !.idx = 1]
    /\ UNCHANGED <<config, now, nextTimer, cache, refreshInFlight, cycleNo, promise,
                   rejection, phase, results, nextCache, batch, tasks, mail, saveIdx,
                   sentIncidentIds, subscriberEmails, dbSubscribers, dbIncidents, subOps,
                   loads, subResponses, sortRun, classifyRun, migrationsDir,
                   schemaMigrations, dbSchema, rememberCall, dbClock, lastSave,
                   unsubscribed, waiters, responses, publishedBy, startCache, executing,
                   fetchCalls, notifyFailed, notifiedCount, evictedCount, digests>>

\* Ways in which migration.up(pool) and migration.down(pool) end: all
\* queries done, an error after some of them, an error before the first
\* (or of the import)
StepOutcomes == {"done", "partial", "untouched"}

\* await migration.up(pool)
MigrationUp(outcome) ==
    /\ migrate.stage = "up"
    /\ LET file == migrate.pending[migrate.idx]
       IN  /\ dbSchema' =
                 CASE outcome = "done" -> [dbSchema EXCEPT ![file] = "present"]
                   [] outcome = "partial" -> [dbSchema EXCEPT ![file] = "partial"]
                   [] OTHER -> dbSchema
           /\ migrate' =
                 IF outcome = "done"
                 THEN [migrate EXCEPT !.stage = "insert",
                                      !.applied = Append(migrate.applied, file)]
                 ELSE Exit(migrate, 1)
    /\ UNCHANGED <<config, now, nextTimer, cache, refreshInFlight, cycleNo, promise,
                   rejection, phase, results, nextCache, batch, tasks, mail, saveIdx,
                   sentIncidentIds, subscriberEmails, dbSubscribers, dbIncidents, subOps,
                   loads, subResponses, sortRun, classifyRun, migrationsDir,
                   schemaMigrations, rememberCall, dbClock, lastSave, unsubscribed,
                   waiters, responses, publishedBy, startCache, executing, fetchCalls,
                   notifyFailed, notifiedCount, evictedCount, digests>>

\* on an error: catch (error) { console.error(...); process.exit(1); }
\* INSERT INTO schema_migrations (name) VALUES (file), and the loop goes on
MigrationRecord(ok) ==
    /\ migrate.stage = "insert"
    /\ LET file == migrate.pending[migrate.idx]
       IN  IF ok
           THEN /\ schemaMigrations' = Append(schemaMigrations, file)
                /\ migrate' =
                      IF migrate.idx < Len(migrate.pending)
                      THEN [migrate EXCEPT !.stage = "up", !.idx = migrate.idx + 1]
                      ELSE Exit(migrate, 0)
           ELSE /\ schemaMigrations' = schemaMigrations
                /\ migrate' = Exit(migrate, 1)
    /\ UNCHANGED <<config, now, nextTimer, cache, refreshInFlight, cycleNo, promise,
                   rejection, phase, results, nextCache, batch, tasks, mail, saveIdx,
                   sentIncidentIds, subscriberEmails, dbSubscribers, dbIncidents, subOps,
                   loads, subResponses, sortRun, classifyRun, migrationsDir, dbSchema,
                   rememberCall, dbClock, lastSave, unsubscribed, waiters, responses,
                   publishedBy, startCache, executing, fetchCalls, notifyFailed,
                   notifiedCount, evictedCount, digests>>

\* a rollback that takes the first migration recorded
firstRecorded(rows) == rows[1]

\* SELECT name FROM schema_migrations ORDER BY id DESC LIMIT 1
lastRecorded(rows) == Last(rows)

\* node migrate.js down: rollbackMigration up to migration.down
MigrateDownStart(ok) ==
    /\ migrate.stage \in {"idle", "exited"}
    /\ LET run == NewRun("down")
       IN  migrate' =
              IF ~ ok THEN Exit(run, 1)
              ELSE IF Len(schemaMigrations) = 0 THEN Exit(run, 0)
              ELSE [run EXCEPT !.stage = "down",
                               !.pending = <<lastRecorded(schemaMigrations)>>, !.idx = 1]
    /\ UNCHANGED <<config, now, nextTimer, cache, refreshInFlight, cycleNo, promise,
                   rejection, phase, results, nextCache, batch, tasks, mail, saveIdx,
                   sentIncidentIds, subscriberEmails, dbSubscribers, dbIncidents, subOps,
                   loads, subResponses, sortRun, classifyRun, migrationsDir,
                   schemaMigrations, dbSchema, rememberCall, dbClock, lastSave,
                   unsubscribed, waiters, responses, publishedBy, startCache, executing,
                   fetchCalls, notifyFailed, notifiedCount, evictedCount, digests>>

\* await migration.down(pool)
MigrationDown(outcome) ==
    /\ migrate.stage = "down"
    /\ LET lastMigration == migrate.pending[1]
       IN  /\ dbSchema' =
                 CASE outcome = "done" -> [dbSchema EXCEPT ![lastMigration] = "absent"]
                   [] outcome = "partial" -> [dbSchema EXCEPT ![lastMigration] = "partial"]
                   [] OTHER -> dbSchema
           /\ migrate' =
                 IF outcome = "done"
                 THEN [migrate EXCEPT !.stage = "delete"]
                 ELSE Exit(migrate, 1)
    /\ UNCHANGED <<config, now, nextTimer, cache, refreshInFlight, cycleNo, promise,
                   rejection, phase, results, nextCache, batch, tasks, mail, saveIdx,
                   sentIncidentIds, subscriberEmails, dbSubscribers, dbIncidents, subOps,
                   loads, subResponses, sortRun, classifyRun, migrationsDir,
                   schemaMigrations, rememberCall, dbClock, lastSave, unsubscribed,
                   waiters, responses, publishedBy, startCache, executing, fetchCalls,
                   notifyFailed, notifiedCount, evictedCount, digests>>

\* DELETE FROM schema_migrations WHERE name = lastMigration
MigrationForget(ok) ==
    /\ migrate.stage = "delete"
    /\ LET lastMigration == migrate.pending[1]
       IN  IF ok
           THEN /\ schemaMigrations' =
                      arrayFilter(schemaMigrations, MigrationNames \ {lastMigration})
                /\ migrate' = Exit(migrate, 0)
           ELSE /\ schemaMigrations' = schemaMigrations
                /\ migrate' = Exit(migrate, 1)
    /\ UNCHANGED <<config, now, nextTimer, cache, refreshInFlight, cycleNo, promise,
                   rejection, phase, results, nextCache, batch, tasks, mail, saveIdx,
                   sentIncidentIds, subscriberEmails, dbSubscribers, dbIncidents, subOps,
                   loads, subResponses, sortRun, classifyRun, migrationsDir, dbSchema,
                   rememberCall, dbClock, lastSave, unsubscribed, waiters, responses,
                   publishedBy, startCache, executing, fetchCalls, notifyFailed,
                   notifiedCount, evictedCount, digests>>

\* a developer adds a migration file between two runs
AddMigration(file) ==
    /\ migrate.stage \in {"idle", "exited"}
    /\ file \notin migrationsDir
    /\ migrationsDir' = migrationsDir \cup {file}
    /\ migrate' = NoRound([migrate EXCEPT !.lastUpOk = FALSE])
    /\ UNCHANGED <<config, now, nextTimer, cache, refreshInFlight, cycleNo, promise,
                   rejection, phase, results, nextCache, batch, tasks, mail, saveIdx,
                   sentIncidentIds, subscriberEmails, dbSubscribers, dbIncidents, subOps,
                   loads, subResponses, sortRun, classifyRun, schemaMigrations, dbSchema,
                   rememberCall, dbClock, lastSave, unsubscribed, waiters, responses,
                   publishedBy, startCache, executing, fetchCalls, notifyFailed,
                   notifiedCount, evictedCount, digests>>

\* the process of InitSort, and beside it the migration command
InitMigrate ==
    /\ config \in {c \in Configs : ~ c.pool /\ ~ c.email}
    /\ InitCycle
    /\ subscriberEmails = <<>>
    /\ InitNoSubs
    /\ InitNoCalls
    /\ InitNoMigration

NextMigrate ==
    \/ \E ok \in BOOLEAN : MigrateUpStart(ok)
    \/ \E outcome \in StepOutcomes : MigrationUp(outcome)
    \/ \E ok \in BOOLEAN : MigrationRecord(ok)
    \/ \E ok \in BOOLEAN : MigrateDownStart(ok)
    \/ \E outcome \in StepOutcomes : MigrationDown(outcome)
    \/ \E ok \in BOOLEAN : MigrationForget(ok)
    \/ \E file \in LaterMigrations : AddMigration(file)

SpecMigrate == InitMigrate /\ [][NextMigrate]_vars

\* -------------------------------------------------- the sort, on its own
\* const sorted = items.sort(comparator), for the items of one provider
SortProvider ==
    /\ ~ sortRun.done
    /\ \E result \in sortResults(sortRun.items) :
          sortRun' = [sortRun EXCEPT !.sorted = result, !.done = TRUE]
    /\ UNCHANGED <<config, now, nextTimer, cache, refreshInFlight, cycleNo, promise,
                   rejection, phase, results, nextCache, batch, tasks, mail, saveIdx,
                   sentIncidentIds, subscriberEmails, dbSubscribers, dbIncidents, subOps,
                   loads, subResponses, classifyRun, migrationsDir, schemaMigrations,
                   dbSchema, migrate, rememberCall, dbClock, lastSave, unsubscribed,
                   waiters, responses, publishedBy, startCache, executing, fetchCalls,
                   notifyFailed, notifiedCount, evictedCount, digests>>

\* the process of InitSubs without a pool, and nothing in it but one call
\* of the sort
InitSort ==
    /\ InitNoMigration
    /\ config \in {c \in Configs : ~ c.pool /\ ~ c.email}
    /\ InitCycle
    /\ subscriberEmails = <<>>
    /\ InitNoSubs
    /\ classifyRun = NoClassify
    /\ \E items \in SortInputs : sortRun = [NoSort EXCEPT !.items = items]

NextSort == SortProvider

SpecSort == InitSort /\ [][NextSort]_vars

\* -------------------------------------------- the classifier, on its own
\* const status = normalizeStatus(item.title, summary);
\* const severity = detectSeverity(item.title, summary);
Classify ==
    /\ ~ classifyRun.done
    /\ classifyRun' =
          [classifyRun EXCEPT
              !.status = normalizeStatus(classifyRun.title, classifyRun.content),
              !.severity = detectSeverity(classifyRun.title, classifyRun.content),
              !.done = TRUE]
    /\ UNCHANGED <<config, now, nextTimer, cache, refreshInFlight, cycleNo, promise,
                   rejection, phase, results, nextCache, batch, tasks, mail, saveIdx,
                   sentIncidentIds, subscriberEmails, dbSubscribers, dbIncidents, subOps,
                   loads, subResponses, sortRun, migrationsDir, schemaMigrations, dbSchema,
                   migrate, rememberCall, dbClock, lastSave, unsubscribed, waiters,
                   responses, publishedBy, startCache, executing, fetchCalls, notifyFailed,
                   notifiedCount, evictedCount, digests>>

InitClassify ==
    /\ InitNoMigration
    /\ config \in {c \in Configs : ~ c.pool /\ ~ c.email}
    /\ InitCycle
    /\ subscriberEmails = <<>>
    /\ InitNoSubs
    /\ sortRun = NoSort
    /\ \E title \in TitleInputs, content \in ContentInputs :
          classifyRun = [NoClassify EXCEPT !.title = title, !.content = content]

NextClassify == Classify

SpecClassify == InitClassify /\ [][NextClassify]_vars

\* ----------------------------------- cycles in which every incident changes
\* The outcomes of the fetches when three sources answer, each with its
\* incident as first reported or as reported once it is over.
DigestFetchOutcomes ==
    {<<o1, o2, o3, Rejected("Request timed out after 15000ms")>> :
        o1 \in {Fulfilled(1, <<ItemX1>>), Fulfilled(1, <<ItemX2>>)},
        o2 \in {Fulfilled(2, <<ItemY>>), Fulfilled(2, <<ItemY2>>)},
        o3 \in {Fulfilled(3, <<ItemZ>>), Fulfilled(3, <<ItemZ2>>), Rejected("Status code 503")}}

\* The process of Init with the email notifier and a subscriber, with and
\* without the webhook notifier.
InitDigest ==
    /\ InitNoMigration
    /\ config \in {c \in Configs : c.email}
    /\ InitCycle
    /\ subscriberEmails \in OrdersOf(Subscribers)
    /\ InitNoSubs
    /\ InitNoCalls

NextDigest ==
    \/ \E outcomes \in DigestFetchOutcomes : FetchSettle(outcomes)
    \/ \E t \in ChatTargets, ok \in BOOLEAN : WebhookSettle(t, ok)
    \/ MailDelivered
    \/ \E message \in MailErrors : MailFailed(message)
    \/ TimerFire
    \/ Tick

SpecDigest == InitDigest /\ [][NextDigest]_vars

\* ------------------------------------ the subscribers table and the Set
\* The process of InitSubs with a pool and an empty subscribers table, once
\* the calls of loadSubscribers have returned.
InitMirror ==
    /\ InitNoMigration
    /\ config \in {c \in Configs : c.pool}
    /\ InitCycle
    /\ InitNoCalls
    /\ subscriberEmails = <<>>
    /\ InitNoSubs

\* Requests to the subscription routes, and their queries, none of which
\* fails; the pool runs the queries that are out in any order.
NextMirror ==
    \/ SubscriberCount
    \/ \E raw \in DigestRequestEmails : Subscribe(raw)
    \/ \E raw \in DigestRequestEmails : Unsubscribe(raw)
    \/ \E i \in 1..MaxSubOps : SubQuery(i, TRUE)

SpecMirror == InitMirror /\ [][NextMirror]_vars

\* req.body?.email of the requests made to the subscription routes
SharedRequestEmails == {<<"a", "@", "b", ".", "c">>}

\* ------------------------------------------------ the incidents table
\* The clock of the database moves on between two statements.
DbTick ==
    /\ dbClock < MaxDbTime
    /\ dbClock' = dbClock + 1
    /\ UNCHANGED <<config, now, nextTimer, cache, refreshInFlight, cycleNo, promise,
                   rejection, phase, results, nextCache, batch, tasks, mail, saveIdx,
                   sentIncidentIds, subscriberEmails, dbSubscribers, dbIncidents, subOps,
                   loads, subResponses, sortRun, classifyRun, migrationsDir,
                   schemaMigrations, dbSchema, migrate, rememberCall, lastSave,
                   unsubscribed, waiters, responses, publishedBy, startCache, executing,
                   fetchCalls, notifyFailed, notifiedCount, evictedCount, digests>>

\* The outcomes of the fetches when the first source answers with a report
\* that has no guid and no link, alone or with a second one of the same
\* pubDate, the second source with its incident as first reported or as
\* reported once it is over, and the last two are out of reach.
PersistFetchOutcomes ==
    {<<o1, o2, Rejected("Status code 503"), Rejected("Request timed out after 15000ms")>> :
        o1 \in {Fulfilled(1, <<ItemP1>>), Fulfilled(1, <<ItemP1, ItemP2>>)},
        o2 \in {Fulfilled(2, <<ItemY>>), Fulfilled(2, <<ItemY2>>), Rejected("")}}

\* The process of Init with a pool and no notifier, once the calls of
\* loadSubscribers have returned with nothing.
InitPersist ==
    /\ InitNoMigration
    /\ config \in {c \in Configs : c.pool}
    /\ InitCycle
    /\ subscriberEmails = <<>>
    /\ InitNoSubs
    /\ InitNoCalls

\* Refresh cycles with their upserts, and subscriptions with theirs.
NextPersist ==
    \/ \E outcomes \in PersistFetchOutcomes : FetchSettle(outcomes)
    \/ \E ok \in BOOLEAN : SaveQuery(ok)
    \/ TimerFire
    \/ Tick
    \/ DbTick
    \/ \E raw \in SharedRequestEmails : Subscribe(raw)
    \/ \E i \in 1..MaxSubOps, ok \in BOOLEAN : SubQuery(i, ok)

SpecPersist == InitPersist /\ [][NextPersist]_vars

\* ------------------------------------------ every writer of shared state
\* The outcomes of the fetches with the first source answering or out of
\* reach, the second answering and the last two out of reach.
SharedFetchOutcomes ==
    {outcomes \in MailFetchOutcomes :
        outcomes[1] # Fulfilled(1, <<ItemX2>>) /\ outcomes[2].status = "fulfilled"}

\* The process of Init with a pool, once the calls of loadSubscribers have
\* returned with nothing.
InitShared ==
    /\ InitNoMigration
    /\ config \in SharedConfigs
    /\ InitCycle
    /\ subscriberEmails = <<>>
    /\ InitNoSubs
    /\ InitNoCalls

\* The steps of the refresh cycle and, between them, the requests to every
\* route.
NextShared ==
    \/ \E outcomes \in SharedFetchOutcomes : FetchSettle(outcomes)
    \/ \E t \in ChatTargets, ok \in BOOLEAN : WebhookSettle(t, ok)
    \/ MailDelivered
    \/ \E message \in MailErrors : MailFailed(message)
    \/ \E ok \in BOOLEAN : SaveQuery(ok)
    \/ TimerFire
    \/ ReadIncidents
    \/ Health
    \/ Tick
    \/ \E raw \in SharedRequestEmails : Subscribe(raw)
    \/ \E raw \in SharedRequestEmails : Unsubscribe(raw)
    \/ \E i \in 1..MaxSubOps, ok \in BOOLEAN : SubQuery(i, ok)

SpecShared == InitShared /\ [][NextShared]_vars

\* --------------------------------------------------- two chat targets
\* The process of Init in a deployment with both chat targets.
InitChat ==
    /\ InitNoMigration
    /\ config \in ChatConfigs
    /\ InitCycle
    /\ subscriberEmails = <<>>
    /\ InitNoSubs
    /\ InitNoCalls

NextChat ==
    \/ \E outcomes \in FetchOutcomes : FetchSettle(outcomes)
    \/ \E t \in ChatTargets, ok \in BOOLEAN : WebhookSettle(t, ok)
    \/ TimerFire
    \/ Tick

SpecChat == InitChat /\ [][NextChat]_vars

\* ------------------------------------------------ the ledger, on its own
\* Identities rememberIncident is called with: those of the feeds, two
\* more, and the empty one
LedgerIds == KnownIds \cup {<<"V">>, <<"W">>, <<>>}

\* rememberIncident(id)
RememberIncident(id) ==
    /\ rememberCall' = [id |-> id, before |-> sentIncidentIds, called |-> TRUE]
    /\ sentIncidentIds' = rememberIncident(sentIncidentIds, id)
    /\ UNCHANGED <<config, now, nextTimer, cache, refreshInFlight, cycleNo, promise,
                   rejection, phase, results, nextCache, batch, tasks, mail, saveIdx,
                   subscriberEmails, dbSubscribers, dbIncidents, subOps, loads,
                   subResponses, sortRun, classifyRun, migrationsDir, schemaMigrations,
                   dbSchema, migrate, dbClock, lastSave, unsubscribed, waiters, responses,
                   publishedBy, startCache, executing, fetchCalls, notifyFailed,
                   notifiedCount, evictedCount, digests>>

\* the process of InitSort, and nothing in it but calls of rememberIncident
InitLedger ==
    /\ InitNoMigration
    /\ config \in {c \in Configs : ~ c.pool /\ ~ c.email}
    /\ InitCycle
    /\ subscriberEmails = <<>>
    /\ InitNoSubs
    /\ InitNoCalls

NextLedger == \E id \in LedgerIds : RememberIncident(id)

SpecLedger == InitLedger /\ [][NextLedger]_vars

\* ------------------------------------------------------------- properties
\* Identity of the incident of ItemX1 and ItemX2.
IdX == <<"X">>

StaleWaiter(r) == r.route = "incidents" /\ r.stale

\* C1: single-flight refresh.  In every reachable state at most one
\* refresh cycle is executing, and it is the one whose promise is pending;
\* every source has been fetched exactly once per cycle started, whatever
\* the number of triggers and whether the source succeeded or failed; every
\* read that waits is attached to the cycle in flight.
C1_SingleFlight ==
    /\ executing = (IF promise = "pending" THEN 1 ELSE 0)
    /\ \A i \in FeedIx : fetchCalls[i] = cycleNo
    /\ \A k \in DOMAIN waiters : waiters[k].cycle = cycleNo /\ promise = "pending"

\* C1, its case: the startup cycle, in which a source failed, has ended; two
\* stale reads and the timer arrived while it was in flight; no second
\* cycle was started and no source was fetched twice.
C1_Witness ==
    /\ cycleNo = 1
    /\ promise = "fulfilled"
    /\ nextTimer = 2 * CACHE_TTL_MS + 2
    /\ Len(responses) = 2
    /\ \A k \in DOMAIN responses : StaleWaiter(responses[k]) /\ responses[k].cycle = 1
    /\ \E i \in FeedIx : results[i].status = "rejected"
    /\ \A i \in FeedIx : fetchCalls[i] = 1

\* C2, as the specification states it: whenever the cycle last started has
\* ended, by success or by failure, the in-flight handle is cleared, so
\* that the next trigger starts a new cycle.
C2_HandleClearedOnEnd == promise # "pending" => refreshInFlight = 0

\* C3, as the specification states it: a cycle in which a delivery to a
\* chat target or the delivery of the email digest failed is not rejected,
\* and no reader waiting on it is answered with an error.
C3_NotificationFailureAbsorbed ==
    notifyFailed =>
        /\ promise # "rejected"
        /\ \A k \in DOMAIN responses : responses[k].body.code = 200

\* Number of incidents of the fulfilled sources among results[1..n].
RECURSIVE FulfilledItemCount(_, _)
FulfilledItemCount(rs, n) ==
    IF n = 0 THEN 0
    ELSE FulfilledItemCount(rs, n - 1)
           + (IF rs[n].status = "fulfilled" THEN Len(rs[n].items) ELSE 0)

Range(seq) == {seq[i] : i \in DOMAIN seq}

\* C4: per-source outcomes.  Once the fetches of a cycle have settled, the
\* snapshot the cycle built holds exactly the incidents of the sources that
\* succeeded, each under the provider of its source, and its errors list
\* holds exactly one entry (provider, source, message) per source that
\* failed and none for a source that succeeded.
C4_MergePerSource ==
    LET failed == {i \in FeedIx : results[i].status = "rejected"}
        succeeded == {i \in FeedIx : results[i].status = "fulfilled"}
        errors == nextCache.errors
        providers == nextCache.providers
    IN  (\A i \in FeedIx : results[i].status # "pending") =>
          /\ Len(errors) = Cardinality(failed)
          /\ \A i \in failed :
                \E k \in DOMAIN errors :
                    /\ errors[k].provider = FEEDS[i].provider
                    /\ errors[k].source = FEEDS[i].name
                    /\ errors[k].message =
                         (IF results[i].message = "" THEN "Failed to load feed"
                          ELSE results[i].message)
          /\ \A i \in succeeded :
                /\ \A k \in DOMAIN errors : errors[k].source # FEEDS[i].name
                /\ \A item \in Range(results[i].items) :
                      \E p \in DOMAIN providers :
                          /\ providers[p].provider = FEEDS[i].provider
                          /\ item \in Range(providers[p].incidents)
          /\ \A p \in DOMAIN providers :
                \A item \in Range(providers[p].incidents) :
                    \E i \in succeeded :
                        /\ FEEDS[i].provider = providers[p].provider
                        /\ item \in Range(results[i].items)
          /\ Len(flattenIncidents(nextCache)) = FulfilledItemCount(results, Len(FEEDS))

\* C4, its case: two sources failed, one of them without a message, the two
\* others delivered an incident each, and the snapshot holds both incidents
\* and both errors.
C4_Witness ==
    /\ results[1].status = "fulfilled"
    /\ results[2].status = "rejected" /\ results[2].message = ""
    /\ results[3].status = "fulfilled"
    /\ results[4].status = "rejected"
    /\ Len(flattenIncidents(nextCache)) = 2
    /\ Len(nextCache.errors) = 2

\* C5: atomic replacement.  Every step that changes the current snapshot
\* replaces it, as a whole, by the candidate that the cycle built from the
\* settled results of all its sources; and every response sent by a step
\* shows the updatedAt (health read, incident read) and the providers
\* (incident read) of the current snapshot, and its errors when the read
\* succeeded.
C5_AtomicReplacement ==
    [][/\ cache' # cache =>
            /\ cache' = nextCache'
            /\ \A i \in FeedIx : results'[i].status # "pending"
            /\ nextCache' = buildNextCache(results', nextCache'.updatedAt)
       /\ \A k \in DOMAIN responses' :
            /\ responses'[k].body.updatedAt = cache'.updatedAt
            /\ responses'[k].route = "incidents" =>
                  /\ responses'[k].body.providers = cache'.providers
                  /\ responses'[k].body.code = 200 =>
                        responses'[k].body.errors = cache'.errors
      ]_vars

\* C5, its case: the second cycle replaced the snapshot of the first by one
\* with incidents and errors, and an incident read was answered from it.
C5_Witness ==
    /\ publishedBy = 2
    /\ cache.providers # <<>>
    /\ cache.errors # <<>>
    /\ cache.updatedAt > CACHE_TTL_MS + 1
    /\ Len(responses) = 1
    /\ responses[1].route = "incidents"
    /\ responses[1].body.code = 200

\* C6: a failed cycle.  When the cycle last started was rejected, the
\* current snapshot is the one from before that cycle, and every read that
\* awaited the cycle was answered with status 500 and the providers and
\* updatedAt of that snapshot.
C6_FailedCycleKeepsSnapshot ==
    promise = "rejected" =>
        /\ cache = startCache
        /\ \A k \in DOMAIN responses :
              StaleWaiter(responses[k]) =>
                  /\ responses[k].body.code = 500
                  /\ responses[k].body.providers = startCache.providers
                  /\ responses[k].body.updatedAt = startCache.updatedAt

\* C6, its case: the second cycle was rejected while two reads awaited it;
\* both were answered with the incidents published by the first cycle.
C6_Witness ==
    /\ promise = "rejected"
    /\ cycleNo = 2
    /\ publishedBy = 1
    /\ cache.providers # <<>>
    /\ Len(responses) = 2
    /\ \A k \in DOMAIN responses :
          StaleWaiter(responses[k]) /\ responses[k].cycle = 2

\* C7, as the specification states it: a read issued while the cache is
\* stale is answered, after the refresh it awaited, with the snapshot
\* published by that refresh.
C7_StaleReadReturnsRefreshed ==
    \A k \in DOMAIN responses :
        StaleWaiter(responses[k]) =>
            /\ responses[k].body = OkBody(cache)
            /\ responses[k].pub = responses[k].cycle

\* C8: a fresh read.  A GET /api/incidents made while the age of the cache
\* is at most the TTL is answered at once with the current snapshot, and
\* the step changes neither the snapshot nor the cycle in flight and
\* fetches no source (so a second read in the window gets the same
\* snapshot).
C8_FreshReadUnchanged ==
    [][(ReadIncidents /\ now - cache.updatedAt <= CACHE_TTL_MS) =>
          /\ Len(responses') = 1
          /\ responses'[1].route = "incidents"
          /\ responses'[1].body.code = 200
          /\ responses'[1].body.updatedAt = cache.updatedAt
          /\ responses'[1].body.providers = cache.providers
          /\ responses'[1].body.errors = cache.errors
          /\ UNCHANGED <<cache, refreshInFlight, cycleNo, promise, phase, waiters,
                         fetchCalls, executing, sentIncidentIds>>
      ]_vars

\* C8, its case: a read at an age of exactly the TTL, with no cycle in
\* flight, was answered with the snapshot of the only cycle so far.
C8_Witness ==
    /\ now - cache.updatedAt = CACHE_TTL_MS
    /\ cache.providers # <<>>
    /\ promise = "fulfilled"
    /\ cycleNo = 1
    /\ Len(responses) = 1
    /\ responses[1].route = "incidents"
    /\ ~ responses[1].stale
    /\ responses[1].body = OkBody(cache)

\* C9, as the specification states it: the reads that awaited the same
\* cycle are answered with the same snapshot, and that snapshot was
\* assigned by the cycle they awaited, not before it.
C9_WaitersSameSnapshot ==
    \A j \in DOMAIN responses, k \in DOMAIN responses :
        (/\ StaleWaiter(responses[j])
         /\ StaleWaiter(responses[k])
         /\ responses[j].cycle = responses[k].cycle) =>
            /\ responses[j].body = responses[k].body
            /\ responses[j].pub = responses[j].cycle

\* C10, as the specification states it: no identity is ever included in
\* the webhook message of two cycles.
C10_NeverNotifiedTwice == \A id \in KnownIds : notifiedCount[id] <= 1

\* C10, amended: an identity is included in a webhook message again only
\* after the ledger, which holds MAX_SENT_IDS identities, has evicted it;
\* per stay in the ledger it is notified at most once.
C10_NotifiedOncePerLedgerStay ==
    \A id \in KnownIds : notifiedCount[id] <= 1 + evictedCount[id]

\* C10, its case: X was notified once and is still in the ledger; it is
\* absent from the previous snapshot and back in the candidate, and the
\* message the cycle is sending for another new incident leaves X out.
C10_Witness ==
    /\ phase = "webhook_wait"
    /\ batch # <<>>
    /\ IdX \notin IdsOf(batch)
    /\ IdX \notin IdsOf(flattenIncidents(cache))
    /\ IdX \in IdsOf(flattenIncidents(nextCache))
    /\ InLedger(sentIncidentIds, IdX)
    /\ notifiedCount[IdX] = 1
    /\ evictedCount[IdX] = 0

\* C11, as the specification states it: in a process with an email
\* transport and at least one subscriber, the cycle whose candidate brings
\* incidents that are neither in the previous snapshot nor in the ledger
\* when its notifiers start sends a digest that lists the first BATCH_LIMIT
\* of them as new incidents; also when the cycle first posts them to a chat
\* target.
C11_NewIncidentsInDigest ==
    [][(emailTransporter /\ subscriberEmails # <<>>) =>
          /\ (phase = "fetch" /\ phase' # "fetch") =>
                LET new == webhookNewIncidents(cache, nextCache', sentIncidentIds)
                IN  new # <<>> =>
                       \/ phase' = "webhook_wait" /\ batch' = firstBatch(new)
                       \/ /\ phase' = "mail_wait"
                          /\ mail'.newIncidents = buildIncidentLines(firstBatch(new))
          /\ (phase = "webhook_wait" /\ phase' # "webhook_wait") =>
                /\ phase' = "mail_wait"
                /\ mail'.newIncidents = buildIncidentLines(batch)
      ]_vars

\* the step in which the cycle calls the email notifier
EmailNotifierRuns ==
    /\ phase \in {"fetch", "webhook_wait"}
    /\ phase' \notin {"fetch", "webhook_wait"}

DigestLine(incident) ==
    [provider |-> incident.provider, title |-> incident.title,
     status |-> incident.status, link |-> incident.link]

Named(raw) == normalizeEmail(raw)

\* local-part@domain-with-dot: one "@" with a local part before it and,
\* after it, a domain that has a "." with text on both sides; no white space
MatchesAddressPattern(email) ==
    \E at \in DOMAIN email :
        LET local == SubSeq(email, 1, at - 1)
            domain == SubSeq(email, at + 1, Len(email))
            plain(text) == \A i \in DOMAIN text : text[i] \notin {" ", "\t", "\n", "@"}
        IN  /\ email[at] = "@"
            /\ local # <<>> /\ plain(local)
            /\ plain(domain)
            /\ \E dot \in DOMAIN domain :
                  domain[dot] = "." /\ dot > 1 /\ dot < Len(domain)

Members(set) == {set[i] : i \in DOMAIN set}

\* C13: add and remove are idempotent.  A subscribe request that names an
\* address already in the set leaves the set and its size as they are, a
\* unsubscribe request that names an absent address leaves the set as it
\* is, and both are accepted: the route answers 201 or 200 at once, or
\* sends its query and answers 201 or 200 when the query has run, also when
\* the query failed.  After every step the size of the set is the number of
\* distinct addresses in it, and the count route answers with that number.
C13_SubscriberIdempotent ==
    [][/\ \A raw \in RequestEmails :
            MatchesAddressPattern(Named(raw)) =>
              /\ (Subscribe(raw) /\ Named(raw) \in Members(subscriberEmails)) =>
                    /\ subscriberEmails' = subscriberEmails
                    /\ \/ subResponses' = <<SubResponse("subscribe", 201, Named(raw), 0)>>
                       \/ /\ subResponses' = <<>>
                          /\ subOps' = Append(subOps, [op |-> "insert", email |-> Named(raw)])
              /\ (Unsubscribe(raw) /\ Named(raw) \notin Members(subscriberEmails)) =>
                    /\ subscriberEmails' = subscriberEmails
                    /\ \/ subResponses' = <<SubResponse("unsubscribe", 200, Named(raw), 0)>>
                       \/ /\ subResponses' = <<>>
                          /\ subOps' = Append(subOps, [op |-> "delete", email |-> Named(raw)])
       /\ \A i \in DOMAIN subOps, ok \in BOOLEAN :
            SubQuery(i, ok) =>
                subResponses' =
                    <<IF subOps[i].op = "insert"
                      THEN SubResponse("subscribe", 201, subOps[i].email, 0)
                      ELSE SubResponse("unsubscribe", 200, subOps[i].email, 0)>>
       /\ Len(subscriberEmails') = Cardinality(Members(subscriberEmails'))
       /\ \A k \in DOMAIN subResponses' :
            subResponses'[k].route = "count" =>
                subResponses'[k].count = Cardinality(Members(subscriberEmails'))
      ]_vars

\* C13, its case: the same address was subscribed twice, both requests
\* wait for their INSERT, and the set holds the address once.
C13_Witness ==
    /\ Len(subOps) = 2
    /\ subOps[1] = subOps[2]
    /\ subOps[1].op = "insert"
    /\ subscriberEmails = <<subOps[1].email>>

\* C14: a subscribe or unsubscribe request whose address, lower-cased and
\* trimmed, does not match local-part@domain-with-dot is answered 400, and
\* the step changes neither the set, its size, the table nor the queries
\* that are out.
C14_InvalidAddressRejected ==
    [][\A raw \in RequestEmails :
          (~ MatchesAddressPattern(Named(raw)) /\ (Subscribe(raw) \/ Unsubscribe(raw))) =>
              /\ Len(subResponses') = 1
              /\ subResponses'[1].code = 400
              /\ UNCHANGED <<subscriberEmails, dbSubscribers, subOps>>
      ]_vars

\* C14, its case: with a subscriber in the set, a subscribe request for
\* a@b was answered 400.
C14_Witness ==
    /\ subscriberEmails # <<>>
    /\ subResponses = <<SubResponse("subscribe", 400, <<"a", "@", "b">>, 0)>>

\* C15, as the specification states it: no two members of the subscriber
\* set differ only in letter case or surrounding white space, and after an
\* unsubscribe request no member is, but for letter case and surrounding
\* white space, the address the request named.
C15_CaseInsensitiveIdentity ==
    [][/\ \A i \in DOMAIN subscriberEmails', j \in DOMAIN subscriberEmails' :
            i # j => Named(subscriberEmails'[i]) # Named(subscriberEmails'[j])
       /\ \A raw \in RequestEmails :
            (MatchesAddressPattern(Named(raw)) /\ Unsubscribe(raw)) =>
                \A i \in DOMAIN subscriberEmails' :
                    Named(subscriberEmails'[i]) # Named(raw)
      ]_vars

\* C16: the ledger is bounded.  In every reachable state sentIncidentIds
\* holds at most MAX_SENT_IDS identities, whatever the number of new
\* incidents of a cycle, and holds none of them twice.
C16_LedgerBounded ==
    /\ Len(sentIncidentIds) <= MAX_SENT_IDS
    /\ \A i \in DOMAIN sentIncidentIds, j \in DOMAIN sentIncidentIds :
          i # j => sentIncidentIds[i] # sentIncidentIds[j]

\* C16, its case: a cycle brought more new incidents than the ledger
\* holds; the ledger is full and the oldest of them has been evicted.
C16_Witness ==
    /\ cycleNo = 1
    /\ phase = "webhook_wait"
    /\ Cardinality(IdsOf(flattenIncidents(nextCache))) > MAX_SENT_IDS
    /\ Len(sentIncidentIds) = MAX_SENT_IDS
    /\ \E id \in KnownIds : evictedCount[id] = 1 /\ ~ InLedger(sentIncidentIds, id)

\* C17, as the specification states it: every refresh cycle that starts
\* ends, that is, the in-flight handle it set is cleared again, and every
\* read that waits on a cycle is answered.
C17_EveryCycleEnds ==
    /\ (refreshInFlight # 0) ~> (refreshInFlight = 0)
    /\ (waiters # <<>>) ~> (waiters = <<>>)

\* severity rank of the claim: critical=0, high=1, medium=2, low=3
SeverityRank(severity) ==
    CASE severity = "critical" -> 0
      [] severity = "high" -> 1
      [] severity = "medium" -> 2
      [] OTHER -> 3

\* publish time of the claim: the parsed time; a missing or unparsable time
\* is the oldest
PublishMs(incident) ==
    IF incident.publishedAt = "" \/ DateParse(incident.publishedAt).nan THEN 0
    ELSE DateParse(incident.publishedAt).ms

\* C18, as the specification states it: the incidents of a provider, once
\* sorted, are the incidents it had, ordered by severity rank ascending
\* and, among equal severity, by publish time descending, a missing or
\* unparsable time counting as the oldest.
C18_SortedBySeverityThenTime ==
    sortRun.done =>
        /\ Len(sortRun.sorted) = Len(sortRun.items)
        /\ \A i \in DOMAIN sortRun.sorted, j \in DOMAIN sortRun.sorted :
              i < j =>
                 LET a == sortRun.sorted[i]
                     b == sortRun.sorted[j]
                 IN  \/ SeverityRank(a.severity) < SeverityRank(b.severity)
                     \/ /\ SeverityRank(a.severity) = SeverityRank(b.severity)
                        /\ PublishMs(a) >= PublishMs(b)

\* the text the classifier searches: title, a space and content in lower
\* case, a missing argument being the empty text
SearchedText(title, content) ==
    toLowerCase((IF title = Undefined THEN <<>> ELSE title) \o <<" ">>
                  \o (IF content = Undefined THEN <<>> ELSE content))

\* the status of the first family, in the order given, a term of which
\* occurs in the text; info when there is none
FirstMatch(text, families) ==
    LET hits == {k \in DOMAIN families : \E term \in families[k].terms : includes(text, term)}
    IN  IF hits = {} THEN "info"
        ELSE families[CHOOSE k \in hits : \A l \in hits : k <= l].status

ResolvedFamilyStated ==
    {<<"r", "e", "s", "o", "l", "v", "e", "d">>,
     <<"m", "i", "t", "i", "g", "a", "t", "e", "d">>,
     <<"r", "e", "s", "t", "o", "r", "e", "d">>,
     <<"s", "t", "a", "b", "i", "l", "i", "z", "e", "d">>,
     <<"r", "e", "c", "o", "v", "e", "r", "i", "n", "g">>}

RecoveryComplete ==
    <<"r", "e", "c", "o", "v", "e", "r", "y", " ", "c", "o", "m", "p", "l", "e", "t", "e">>

StatusFamilies(resolvedFamily) ==
    << [status |-> "resolved", terms |-> resolvedFamily],
       [status |-> "investigating",
        terms |-> {<<"i", "n", "v", "e", "s", "t", "i", "g", "a", "t", "i", "n", "g">>}],
       [status |-> "maintenance",
        terms |-> {<<"m", "a", "i", "n", "t", "e", "n", "a", "n", "c", "e">>}],
       [status |-> "degraded", terms |-> {<<"d", "e", "g", "r", "a", "d">>}],
       [status |-> "incident",
        terms |-> {<<"o", "u", "t", "a", "g", "e">>,
                   <<"i", "n", "c", "i", "d", "e", "n", "t">>}] >>

\* C19, as the specification states it: the status is that of the first
\* family with a term in the text, in the order resolved (resolved,
\* mitigated, restored, stabilized, recovering), investigating,
\* maintenance, degraded, incident (outage, incident), and info when no
\* term occurs; a missing title or content counts as empty.
C19_StatusPrecedenceAsStated ==
    classifyRun.done =>
        classifyRun.status =
            FirstMatch(SearchedText(classifyRun.title, classifyRun.content),
                       StatusFamilies(ResolvedFamilyStated))

\* C19, amended: the same, with "recovery complete" among the terms of the
\* resolved family.
C19_StatusPrecedence ==
    classifyRun.done =>
        classifyRun.status =
            FirstMatch(SearchedText(classifyRun.title, classifyRun.content),
                       StatusFamilies(ResolvedFamilyStated \cup {RecoveryComplete}))

\* C19, its case: a title with investigating or outage and, after it, a term of
\* the resolved family, and no content at all, was classified resolved.
C19_Witness ==
    /\ classifyRun.done
    /\ classifyRun.content = Undefined
    /\ classifyRun.status = "resolved"
    /\ \E p \in Phrases, q \in Phrases :
          /\ classifyRun.title = p \o <<" ">> \o q
          /\ toLowerCase(p) \in {<<"i", "n", "v", "e", "s", "t", "i", "g", "a", "t", "i", "n", "g">>,
                                 <<"o", "u", "t", "a", "g", "e">>}
          /\ toLowerCase(q) \in ResolvedFamilyStated

DirectionTokens ==
    {<<"e", "a", "s", "t">>, <<"w", "e", "s", "t">>, <<"n", "o", "r", "t", "h">>,
     <<"s", "o", "u", "t", "h">>, <<"c", "e", "n", "t", "r", "a", "l">>}

\* the severity the specification gives a text
StatedSeverity(text) ==
    LET any(terms) == \E term \in terms : includes(text, term)
        critical == any({<<"o", "u", "t", "a", "g", "e">>,
                         <<"u", "n", "a", "v", "a", "i", "l", "a", "b", "l", "e">>,
                         <<"c", "o", "m", "p", "l", "e", "t", "e", " ",
                           "f", "a", "i", "l", "u", "r", "e">>})
        high ==
            \/ any({<<"f", "a", "i", "l", "u", "r", "e">>,
                    <<"u", "n", "a", "b", "l", "e">>,
                    <<"m", "a", "j", "o", "r">>,
                    <<"m", "u", "l", "t", "i", "p", "l", "e", " ",
                      "r", "e", "g", "i", "o", "n", "s">>,
                    <<"d", "e", "p", "e", "n", "d", "e", "n", "t", " ",
                      "s", "e", "r", "v", "i", "c", "e">>})
            \/ (includes(text, <<"r", "e", "g", "i", "o", "n">>)
                  /\ includes(text, <<"i", "m", "p", "a", "c", "t", "e", "d">>))
            \/ \E d1 \in DirectionTokens, d2 \in DirectionTokens :
                  d1 # d2 /\ includes(text, d1) /\ includes(text, d2)
        medium == any({<<"d", "e", "g", "r", "a", "d", "e", "d">>,
                       <<"i", "n", "t", "e", "r", "m", "i", "t", "t", "e", "n", "t">>,
                       <<"d", "e", "l", "a", "y", "s">>,
                       <<"e", "l", "e", "v", "a", "t", "e", "d", " ",
                         "l", "a", "t", "e", "n", "c", "y">>})
    IN  IF critical THEN "critical"
        ELSE IF high THEN "high"
        ELSE IF medium THEN "medium"
        ELSE "low"

\* C20, as the specification states it: the severity is critical when a
\* critical term (outage, unavailable, complete failure) occurs; otherwise
\* high when a high term occurs (failure, unable, major, the multi-region
\* phrasings "multiple regions" and "region" with "impacted", "dependent
\* service", or two distinct directional tokens); otherwise medium
\* when a medium term occurs (degraded, intermittent, delays, elevated
\* latency); otherwise low.  A text with no critical and no high term is
\* therefore neither critical nor high.
C20_SeverityPrecedence ==
    classifyRun.done =>
        classifyRun.severity
            = StatedSeverity(SearchedText(classifyRun.title, classifyRun.content))


\* The cycle in flight has completed with the step: its promise is
\* fulfilled, the handle is cleared, the candidate is the current snapshot
\* and every reader that waited is answered with it.
CompletesWithCandidate ==
    /\ promise' = "fulfilled"
    /\ refreshInFlight' = 0
    /\ cache' = nextCache'
    /\ Len(responses') = Len(waiters)
    /\ \A k \in DOMAIN responses' :
          /\ StaleWaiter(responses'[k])
          /\ responses'[k].body = OkBody(nextCache')

\* C21: a failure of the incident persistence upsert is absorbed.  The step
\* in which saveIncidentsToDatabase returns, after its last upsert or after
\* one that failed, completes the cycle: the promise is fulfilled, the
\* candidate snapshot is the current one, the in-flight handle is cleared
\* and the waiting readers get the new snapshot.  Without a persistence
\* sink the step that publishes the candidate has the same outcome.
C21_PersistenceFailureAbsorbed ==
    [][(\/ phase = "save_wait" /\ phase' # "save_wait"
        \/ ~ config.pool /\ publishedBy' # publishedBy)
          => CompletesWithCandidate]_vars

\* C21, its case: the first upsert of the startup cycle failed (the table
\* is empty although the snapshot holds an incident with an identity); the
\* cycle is fulfilled, the handle cleared, and a reader that waited has
\* just been answered with the new snapshot.
C21_Witness ==
    /\ config.pool
    /\ cycleNo = 1
    /\ promise = "fulfilled"
    /\ refreshInFlight = 0
    /\ dbIncidents = {}
    /\ \E i \in DOMAIN flattenIncidents(cache) : flattenIncidents(cache)[i].id # <<>>
    /\ responses # <<>>
    /\ \A k \in DOMAIN responses :
          StaleWaiter(responses[k]) /\ responses[k].body = OkBody(cache)

\* The response that reports the request of a query as accepted.
Accepted(op) ==
    IF op.op = "insert" THEN SubResponse("subscribe", 201, op.email, 0)
    ELSE SubResponse("unsubscribe", 200, op.email, 0)

\* The step is a call of Subscribe or Unsubscribe for the valid address of
\* op: its query has gone out or, without a sink, it has been answered.
Requested(op) ==
    \/ subOps' = Append(subOps, op)
    \/ ~ config.pool /\ subResponses' = <<Accepted(op)>>

\* C22: for a valid address Subscribe and Unsubscribe always apply the
\* change to the in-memory set and are reported as accepted, whether the
\* persistence sink is absent, succeeds or fails.  The step of the request
\* leaves the address in the set (Subscribe) or out of it (Unsubscribe);
\* the step in which its query ends, by success or by failure, leaves the
\* set as it is and answers 201 or 200 for that address; no valid address
\* is ever answered 400.
C22_MemoryChangeNeverBlocked ==
    [][/\ \A email \in {normalizeEmail(raw) : raw \in RequestEmails} :
             isValidEmail(email) =>
               /\ Requested([op |-> "insert", email |-> email])
                     => email \in Members(subscriberEmails')
               /\ Requested([op |-> "delete", email |-> email])
                     => email \notin Members(subscriberEmails')
               /\ \A k \in DOMAIN subResponses' :
                     subResponses'[k].email = email => subResponses'[k].code # 400
       /\ Len(subOps') < Len(subOps) =>
             /\ subscriberEmails' = subscriberEmails
             /\ \E i \in DOMAIN subOps :
                   /\ subOps' = RemoveAt(subOps, i)
                   /\ subResponses' = <<Accepted(subOps[i])>>]_vars

\* C22, its case: the INSERT for a@b.c failed (the address is not in the
\* table), the request has just been answered 201 and the address is a
\* member of the set.
C22_Witness ==
    LET email == <<"a", "@", "b", ".", "c">>
    IN  /\ config.pool
        /\ loads = <<>>
        /\ subOps = <<>>
        /\ email \notin dbSubscribers
        /\ email \in Members(subscriberEmails)
        /\ subResponses = <<SubResponse("subscribe", 201, email, 0)>>

\* The step calls sendMail: a digest goes out.
DigestSent == digests' = digests + 1 /\ mail' # NoMail

\* C23: no email digest is sent in a cycle in which the subscriber set is
\* empty or the email transport is unconfigured, whatever the difference
\* between the previous and the candidate snapshot: no step taken while
\* the set is empty or the transport is missing calls sendMail or leaves a
\* mail in flight that was not there before.
C23_NoDigestWithoutRecipients ==
    [][(~ emailTransporter \/ subscriberEmails = <<>>)
          => /\ ~ DigestSent
             /\ digests' <= digests
             /\ mail' \in {mail, NoMail}]_vars

\* C23, its case: the transport is configured and the webhook notifier is
\* off, the only subscriber has unsubscribed, and the second cycle has
\* completed and published a status change of incident X (investigating
\* to resolved) without a digest.
C23_Witness ==
    /\ emailTransporter
    /\ ~ config.notifications
    /\ subscriberEmails = <<>>
    /\ subResponses # <<>>
    /\ subResponses[1].route = "unsubscribe"
    /\ cycleNo = 2
    /\ promise = "fulfilled"
    /\ digests = 0
    /\ \E i \in DOMAIN flattenIncidents(cache) :
          /\ flattenIncidents(cache)[i].id = IdX
          /\ flattenIncidents(cache)[i].status = "resolved"
    /\ sentIncidentIds = <<>>

\* C24: at most one digest is sent per refresh cycle, and its
\* blind-recipient list equals the whole subscriber set as it stood at one
\* single instant of that cycle, for every interleaving of Subscribe and
\* Unsubscribe calls with the cycle.  The instant is the call of sendMail:
\* the list of the digest is the set of that moment, member by member and
\* in the order of the set, and it does not change while the mail is out.
C24_OneDigestWholeSet ==
    [][/\ digests' <= 1
       /\ DigestSent => mail'.bcc = subscriberEmails /\ subscriberEmails' = subscriberEmails
       /\ (mail # NoMail /\ mail' # NoMail) => mail' = mail]_vars

\* C24, its case: the digest of the running cycle went out to a@b.c and
\* x@y.z; while sendMail is pending a@b.c has unsubscribed.
C24_Witness ==
    /\ phase = "mail_wait"
    /\ digests = 1
    /\ mail.bcc = <<<<"a", "@", "b", ".", "c">>, <<"x", "@", "y", ".", "z">>>>
    /\ subscriberEmails = <<<<"x", "@", "y", ".", "z">>>>

\* The migration files that were not recorded when the run started.
PendingAtStart ==
    {f \in migrate.dir : endsWith(f, <<".", "j", "s">>) /\ f \notin Range(migrate.before)}

\* C25: migration 'up' applies exactly the migration files not yet
\* recorded as applied, in ascending file-name order, and records each one
\* only after its 'up' step has completed; running 'up' again immediately
\* afterwards applies nothing and leaves the record unchanged.  At every
\* point of a run of 'up': the files applied so far are files that were
\* pending at the start, each once, in ascending order of their names and
\* with no pending file of a smaller name left out; the record is the
\* record of the start followed by the files applied, the last of them
\* possibly not recorded yet.  When the run has ended without an error all
\* pending files are applied and recorded.  A run started right after such
\* a run applies nothing and leaves the record as it was.
C25_UpAppliesPending ==
    migrate.command = "up" =>
        LET applied == migrate.applied
            n == Len(applied)
        IN  /\ Range(applied) \subseteq PendingAtStart
            /\ \A i, j \in 1..n : i < j => StringLess(applied[i], applied[j])
            /\ \A f \in PendingAtStart, g \in Range(applied) :
                  StringLess(f, g) => f \in Range(applied)
            /\ \/ schemaMigrations = migrate.before \o applied
               \/ /\ n > 0
                  /\ migrate.stage \in {"insert", "exited"}
                  /\ migrate.stage = "exited" => migrate.exitCode = 1
                  /\ schemaMigrations = migrate.before \o SubSeq(applied, 1, n - 1)
            /\ (migrate.stage = "exited" /\ migrate.exitCode = 0) =>
                  /\ Range(applied) = PendingAtStart
                  /\ schemaMigrations = migrate.before \o applied
            /\ migrate.afterUp =>
                  applied = <<>> /\ schemaMigrations = migrate.before

\* C25, its case: an 'up' has applied the three migration files, the one
\* of the repository and two added later, in the order 001.js, 10.js, 2.js,
\* and the 'up' run right after it has ended without applying anything.
C25_Witness ==
    /\ migrate.command = "up"
    /\ migrate.afterUp
    /\ migrate.stage = "exited"
    /\ migrate.exitCode = 0
    /\ migrate.roundN = 0
    /\ schemaMigrations =
          <<InitialSchema, <<"1", "0", ".", "j", "s">>, <<"2", ".", "j", "s">>>>
    /\ \A f \in MigrationNames : dbSchema[f] = "present"

\* All of a sequence but its last member.
ButLast(seq) == SubSeq(seq, 1, Len(seq) - 1)

\* C26: migration 'down' reverts only the most recently applied migration
\* (the last one recorded) and removes only that record; with no migration
\* recorded it changes nothing; after an 'up' of N pending migrations
\* followed by N 'down' calls the record of applied migrations is the one
\* from before the 'up'.  Step by step: migration.down touches the objects
\* of the last migration recorded and of no other; the DELETE takes the
\* last name off the record and leaves the others in their order; a run
\* changes the record in no other way; a run that finds no record changes
\* neither the record nor the database; and once N runs of 'down' have
\* ended without an error after an 'up' that applied N migrations, the
\* record is the one the 'up' started from.
C26_DownRevertsLast ==
    [][/\ migrate.stage = "down" =>
             /\ schemaMigrations # <<>>
             /\ \A f \in MigrationNames :
                   f # Last(schemaMigrations) => dbSchema'[f] = dbSchema[f]
             /\ migrate'.stage = "delete" => dbSchema'[Last(schemaMigrations)] = "absent"
             /\ schemaMigrations' = schemaMigrations
       /\ migrate.stage = "delete" =>
             /\ schemaMigrations' \in {schemaMigrations, ButLast(schemaMigrations)}
             /\ schemaMigrations' = schemaMigrations <=> migrate'.exitCode = 1
             /\ dbSchema' = dbSchema
       /\ migrate'.command = "down" =>
             /\ schemaMigrations' \in {migrate'.before, ButLast(migrate'.before)}
             /\ migrate'.before = <<>> =>
                   /\ UNCHANGED <<schemaMigrations, dbSchema>>
                   /\ migrate'.stage = "exited"
                   /\ migrate'.exitCode \in {0, 1}
       /\ (migrate'.roundValid /\ migrate'.stage = "exited"
              /\ migrate'.roundDowns = migrate'.roundN) =>
             schemaMigrations' = migrate'.roundBase]_vars

\* C26, its case: with 001.js recorded, an 'up' applied 10.js and 2.js, and
\* the second of two 'down' runs after it has ended: the record is 001.js
\* again, and the objects of the two later migrations are gone.
C26_Witness ==
    /\ migrate.command = "down"
    /\ migrate.stage = "exited"
    /\ migrate.exitCode = 0
    /\ migrate.roundValid
    /\ migrate.roundN = 2
    /\ migrate.roundDowns = 2
    /\ migrate.roundBase = <<InitialSchema>>
    /\ schemaMigrations = <<InitialSchema>>
    /\ dbSchema[InitialSchema] = "present"
    /\ \A f \in LaterMigrations : dbSchema[f] = "absent"

\* C27, as the specification states it: inside one refresh cycle both
\* notifiers run first, then the persistence upsert with the candidate
\* snapshot, then the publication of the candidate; the candidate does not
\* become visible to readers before the upsert of that cycle has been
\* attempted.  While the cycle waits for a notifier or for a query of its
\* upsert, the current snapshot is not the one of that cycle and no
\* response carries it.
C27_PersistBeforePublish ==
    phase \in {"webhook_wait", "mail_wait", "save_wait"} =>
        /\ publishedBy # cycleNo
        /\ \A k \in DOMAIN responses : responses[k].pub # cycleNo

\* the publish time of the incident is there and Date.parse gives a time
HasPublishTime(incident) ==
    incident.publishedAt # "" /\ ~ DateParse(incident.publishedAt).nan

\* C28, as the specification states it: in the per-provider sort an
\* incident whose publish time is missing or cannot be parsed sorts as the
\* oldest: it comes after every incident of the same severity that has a
\* parsable publish time, for every input order of the incidents.
C28_UndatedSortsLast ==
    sortRun.done =>
        \A i \in DOMAIN sortRun.sorted, j \in DOMAIN sortRun.sorted :
            (/\ sortRun.sorted[i].severity = sortRun.sorted[j].severity
             /\ HasPublishTime(sortRun.sorted[i])
             /\ ~ HasPublishTime(sortRun.sorted[j])) => i < j

\* The incidents of the candidate the diff rule of the specification calls
\* new at the step in which the fetches settle: an identity that is absent
\* from the flattened previous snapshot and from the ledger of that moment.
NewByDiffRule ==
    LET previous == flattenIncidents(cache)
        isNew(item) ==
            /\ item.id # <<>>
            /\ \A i \in DOMAIN previous : previous[i].id # item.id
            /\ \A i \in DOMAIN sentIncidentIds : sentIncidentIds[i] # item.id
    IN  SelectSeq(flattenIncidents(nextCache'), isNew)

\* The last n members of a sequence.
LastN(seq, n) == IF Len(seq) <= n THEN seq ELSE SubSeq(seq, Len(seq) - n + 1, Len(seq))

\* C29: webhook diff rule.  In every cycle the incidents treated as new by
\* the webhook notifier are exactly the incidents of the candidate whose
\* identity is absent from the previous snapshot's flattened incident list
\* and absent from the Dedup Ledger as it stands at the start of the
\* notifier: these, and no others, are remembered in the ledger (oldest
\* entries giving way) and make up the message sent to every configured
\* chat target; when there is none, nothing is dispatched and the ledger is
\* unchanged.
C29_WebhookDiffRule ==
    [][(phase = "fetch" /\ phase' # "fetch" /\ config.notifications) =>
          LET new == NewByDiffRule
              ids == [i \in DOMAIN new |-> new[i].id]
              targets == {t \in ChatTargets : config[t]}
          IN  /\ sentIncidentIds' = LastN(sentIncidentIds \o ids, MAX_SENT_IDS)
              /\ new = <<>> =>
                    /\ sentIncidentIds' = sentIncidentIds
                    /\ batch' = <<>>
                    /\ tasks' = NoTasks
                    /\ notifiedCount' = notifiedCount
                    /\ phase' # "webhook_wait"
              /\ (new # <<>> /\ targets # {}) =>
                    /\ phase' = "webhook_wait"
                    /\ batch' = SubSeq(new, 1, IF Len(new) < BATCH_LIMIT THEN Len(new) ELSE BATCH_LIMIT)
                    /\ \A t \in ChatTargets : tasks'[t] = "pending" <=> t \in targets]_vars

\* C29, its case: the third cycle found X, Y and Z.  Z is in the previous
\* snapshot, Y is not but is in the ledger, X is in neither: the message
\* that is out holds X only, and X has taken the place of the oldest
\* identity in the ledger.
C29_Witness ==
    LET IdY == <<"https://y">>
        previous == IdsOf(flattenIncidents(cache))
        candidate == IdsOf(flattenIncidents(nextCache))
    IN  /\ phase = "webhook_wait"
        /\ cycleNo = 3
        /\ IdsOf(batch) = {IdX}
        /\ {IdX, IdY} \subseteq candidate
        /\ Cardinality(candidate) = 3
        /\ Cardinality(previous) = 1
        /\ IdX \notin previous
        /\ IdY \notin previous
        /\ sentIncidentIds[1] \notin {IdX, IdY}
        /\ sentIncidentIds[2] = IdX

\* C30, as the specification states it: every identity held in the Dedup
\* Ledger has actually been notified via the webhook channel: in every
\* reachable state each identity in the ledger was included in a webhook
\* message that was dispatched to at least one chat target.
C30_LedgerHoldsNotified ==
    \A i \in DOMAIN sentIncidentIds : notifiedCount[sentIncidentIds[i]] >= 1

\* C31: ledger eviction is FIFO.  Over every call of rememberIncident: an
\* identity leaves the ledger only if the call inserted an identity that
\* was absent and the size would exceed MAX_SENT_IDS, and then exactly the
\* identity inserted earliest among those present leaves; the identities
\* that stay keep their order, with the inserted one last; and a call with
\* an identity that is already present leaves the ledger as it was, order
\* included.
C31_EvictionIsFifo ==
    [][rememberCall'.called =>
          LET before == rememberCall'.before
              after == sentIncidentIds'
              id == rememberCall'.id
              inserted == id # <<>> /\ ~ InLedger(before, id)
              left == {x \in Range(before) : ~ InLedger(after, x)}
              stayed == SelectSeq(before, LAMBDA x : x \notin left)
          IN  /\ before = sentIncidentIds
              /\ left # {} => /\ inserted
                              /\ Len(before) + 1 > MAX_SENT_IDS
                              /\ left = {before[1]}
              /\ (inserted /\ Len(before) + 1 > MAX_SENT_IDS) => left # {}
              /\ after = IF inserted THEN Append(stayed, id) ELSE stayed
              /\ ~ inserted => after = before
      ]_vars

\* C31, its case: the ledger was full, an identity that was absent came in
\* and the oldest one left; the others moved up
C31_Witness ==
    /\ rememberCall.called
    /\ Len(rememberCall.before) = MAX_SENT_IDS
    /\ ~ InLedger(rememberCall.before, rememberCall.id)
    /\ ~ InLedger(sentIncidentIds, rememberCall.before[1])
    /\ sentIncidentIds = Append(Tail(rememberCall.before), rememberCall.id)

\* C31, its other case: a call with the oldest identity of a full ledger
C31_WitnessPresent ==
    /\ rememberCall.called
    /\ Len(rememberCall.before) = MAX_SENT_IDS
    /\ rememberCall.id = rememberCall.before[1]
    /\ sentIncidentIds = rememberCall.before

\* C32, as the specification states it: in every cycle all incidents found
\* new by the webhook notifier are in the Dedup Ledger when the first
\* delivery of the cycle is attempted, and no step taken while the
\* deliveries are out takes one of them out of the ledger.
C32_MarkedBeforeDelivery ==
    [][/\ (phase = "fetch" /\ phase' = "webhook_wait") =>
              \A i \in DOMAIN NewByDiffRule : InLedger(sentIncidentIds', NewByDiffRule[i].id)
       /\ phase = "webhook_wait" =>
              \A i \in DOMAIN sentIncidentIds : InLedger(sentIncidentIds', sentIncidentIds[i])
      ]_vars

\* C32, amended: in every cycle the incidents found new by the webhook
\* notifier are in the Dedup Ledger when the first delivery of the cycle is
\* attempted, all of them when no more than MAX_SENT_IDS were found and
\* else the last MAX_SENT_IDS of them, and the ledger is the same after
\* every step taken while the deliveries are out, whatever their outcome.
C32_MarkedUpToCapacity ==
    [][/\ (phase = "fetch" /\ phase' = "webhook_wait") =>
              LET kept == LastN(NewByDiffRule, MAX_SENT_IDS)
              IN  \A i \in DOMAIN kept : InLedger(sentIncidentIds', kept[i].id)
       /\ phase = "webhook_wait" => sentIncidentIds' = sentIncidentIds
      ]_vars

\* C32, its case: the delivery of the cycle failed and the cycle went on
\* to its digest; the incident that came new with the candidate is in the
\* ledger.
C32_Witness ==
    /\ phase = "mail_wait"
    /\ notifyFailed
    /\ \E id \in IdsOf(flattenIncidents(nextCache)) \ IdsOf(flattenIncidents(cache)) :
          InLedger(sentIncidentIds, id)

\* The first n members of a sequence.
FirstN(seq, n) == SubSeq(seq, 1, IF Len(seq) < n THEN Len(seq) ELSE n)

\* the incidents of the candidate the digest counts as new when the email
\* notifier runs in this step, and those it counts as changed, each in the
\* order of the merged snapshot
DigestNewList ==
    LET previous == flattenIncidents(cache)
        isNew(item) ==
            /\ item.id # <<>>
            /\ \A i \in DOMAIN previous : previous[i].id # item.id
            /\ \A i \in DOMAIN sentIncidentIds' : sentIncidentIds'[i] # item.id
    IN  SelectSeq(flattenIncidents(nextCache'), isNew)

DigestChangedList ==
    LET previous == flattenIncidents(cache)
        isChanged(item) ==
            /\ item.id # <<>>
            /\ \E i \in DOMAIN previous :
                  previous[i].id = item.id /\ previous[i].status # item.status
    IN  SelectSeq(flattenIncidents(nextCache'), isChanged)

\* C33: a notification lists at most BATCH_LIMIT (5 in the code) incidents
\* per category.  The message of the webhook notifier holds exactly the
\* first min(BATCH_LIMIT, n) of the n new incidents, in the order of the
\* merged snapshot; the digest holds the first min(BATCH_LIMIT, n) entries
\* of its new list and of its status-changed list, in that same order.
C33_FirstFivePerCategory ==
    [][/\ (phase = "fetch" /\ phase' = "webhook_wait") =>
              batch' = FirstN(NewByDiffRule, BATCH_LIMIT)
       /\ (EmailNotifierRuns /\ phase' = "mail_wait") =>
              LET news == FirstN(DigestNewList, BATCH_LIMIT)
                  changes == FirstN(DigestChangedList, BATCH_LIMIT)
              IN  /\ mail'.newIncidents = [i \in DOMAIN news |-> DigestLine(news[i])]
                  /\ Len(mail'.statusChanges) = Len(changes)
                  /\ \A i \in DOMAIN changes : mail'.statusChanges[i].incident = changes[i]
      ]_vars

\* C33, its case: three incidents changed their status in one cycle and
\* the digest that is out lists the first BATCH_LIMIT of them
C33_Witness ==
    LET previous == flattenIncidents(cache)
        next == flattenIncidents(nextCache)
        changed == {k \in DOMAIN next :
                       \E i \in DOMAIN previous :
                           previous[i].id = next[k].id /\ previous[i].status # next[k].status}
    IN  /\ phase = "mail_wait"
        /\ Cardinality(changed) > BATCH_LIMIT
        /\ Len(mail.statusChanges) = BATCH_LIMIT
        /\ \A i \in 1..BATCH_LIMIT : mail.statusChanges[i].incident = next[i]

\* C33, more of its cases: a message to a chat target and a digest that
\* leave out the last of three new incidents
C33_WitnessWebhook ==
    /\ phase = "webhook_wait"
    /\ Len(batch) = BATCH_LIMIT
    /\ Len(flattenIncidents(nextCache)) > BATCH_LIMIT
    /\ cycleNo = 1

C33_WitnessDigestNew ==
    /\ phase = "mail_wait"
    /\ Len(mail.newIncidents) = BATCH_LIMIT
    /\ Len(flattenIncidents(nextCache)) > BATCH_LIMIT
    /\ cycleNo = 1

\* C34: chat targets are independent.  In a cycle whose candidate brings
\* new incidents the message is posted to every configured chat target, in
\* the step in which the notifier starts and in no other step of the
\* cycle, so once per target and never again after a failure; and when the
\* delivery to one target settles, by an answer or by an error, the
\* delivery to the other target stays out as it was and the cycle waits
\* for it.
C34_TargetsIndependent ==
    [][/\ (phase = "fetch" /\ phase' # "fetch" /\ config.notifications
             /\ NewByDiffRule # <<>>) =>
              /\ phase' = "webhook_wait"
              /\ \A t \in ChatTargets : config[t] => tasks'[t] = "pending"
       /\ \A t \in ChatTargets :
              (tasks[t] # "pending" /\ tasks'[t] = "pending") =>
                  /\ phase = "fetch"
                  /\ cycleNo' = cycleNo
                  /\ config[t]
                  /\ NewByDiffRule # <<>>
       /\ \A t \in ChatTargets :
              (tasks[t] = "pending" /\ tasks'[t] # "pending") =>
                  \A u \in ChatTargets \ {t} :
                      tasks[u] = "pending" =>
                          /\ tasks'[u] = "pending"
                          /\ phase' = "webhook_wait"
                          /\ promise' = "pending"
                          /\ batch' = batch
      ]_vars

\* C34, its case: both targets are configured, the delivery to one of them
\* has failed and the delivery to the other is still out
C34_Witness ==
    /\ config.discord /\ config.teams
    /\ phase = "webhook_wait"
    /\ notifyFailed
    /\ \E t \in ChatTargets : tasks[t] = "failed"
    /\ \E u \in ChatTargets : tasks[u] = "pending"
    /\ batch # <<>>

\* C35: ownership of shared state.  The current snapshot changes only in
\* the step in which a running cycle, past its notifiers, assigns its
\* candidate; the Dedup Ledger changes only in the step in which the cycle
\* leaves its fetches and the webhook notifier, if enabled, runs; and no
\* step in which a refresh cycle starts, goes on or ends changes the
\* subscriber set.  So a read, a health check, Subscribe, Unsubscribe and
\* their queries, the email notifier and the upsert leave the snapshot and
\* the ledger as they were.
C35_SharedStateOwners ==
    [][/\ cache' # cache =>
              /\ phase \in {"fetch", "webhook_wait", "mail_wait"}
              /\ phase' \in {"save_wait", "idle"}
              /\ promise' # "rejected"
              /\ cycleNo' = cycleNo
              /\ cache' = nextCache'
              /\ publishedBy' = cycleNo
       /\ sentIncidentIds' # sentIncidentIds =>
              /\ phase = "fetch" /\ phase' # "fetch"
              /\ config.notifications
              /\ cycleNo' = cycleNo
       /\ subscriberEmails' # subscriberEmails =>
              /\ <<cache, sentIncidentIds, phase, cycleNo, promise, refreshInFlight,
                    nextCache, tasks, mail, saveIdx, dbIncidents>>'
                   = <<cache, sentIncidentIds, phase, cycleNo, promise, refreshInFlight,
                       nextCache, tasks, mail, saveIdx, dbIncidents>>
              /\ responses' = responses
      ]_vars

\* C35, its case: a cycle found new incidents, marked them and published,
\* and while it waits for its upsert a subscription came in and waits for
\* its INSERT
C35_Witness ==
    /\ phase = "save_wait"
    /\ cache = nextCache
    /\ sentIncidentIds # <<>>
    /\ subscriberEmails # <<>>
    /\ \E i \in DOMAIN subOps : subOps[i].op = "insert"

\* C36, as the specification states it: the upsert is idempotent.  When a
\* saveIncidentsToDatabase runs to its end right after one that ran to its
\* end with the same incidents, the table is what it was after the first,
\* stamps included; the table never holds two rows of one identity; and an
\* INSERT of an address that the subscribers table holds leaves the table
\* as it was.
C36_UpsertIdempotent ==
    [][/\ (/\ phase = "save_wait" /\ phase' = "idle"
           /\ lastSave.complete /\ lastSave'.complete
           /\ lastSave'.list = lastSave.list) =>
              dbIncidents' = lastSave.table
       /\ \A r1, r2 \in dbIncidents' : r1.id = r2.id => r1 = r2
       /\ (/\ Len(subOps') < Len(subOps)
           /\ \A i \in DOMAIN subOps : subOps[i].email \in dbSubscribers) =>
              dbSubscribers' = dbSubscribers
      ]_vars

\* the columns of a stored incident that the specification lets change
\* across refreshes, and the last-updated stamp
MutableColumns == {"status", "severity", "lastUpdatedAt"}

\* C37, as the specification states it: a stored incident is mutable only
\* in status and severity.  When the upsert of an incident whose identity
\* is stored settles, every column of its row other than status, severity
\* and the last-updated stamp is what it was.
C37_OnlyStatusAndSeverityChange ==
    [][\A old \in dbIncidents :
          \E row \in dbIncidents' :
              /\ row.id = old.id
              /\ \A column \in DOMAIN old \ MutableColumns : row[column] = old[column]
      ]_vars

\* C38: the updatedAt of the current snapshot never decreases, and once a
\* cycle has published, the current snapshot is never again the zeroed one
\* of the start (updatedAt 0, no providers, no errors) and no response
\* built from then on carries updatedAt 0; also after cycles that fail and
\* after cycles in which every source fails.
C38_SnapshotNeverGoesBack ==
    [][/\ cache'.updatedAt >= cache.updatedAt
       /\ publishedBy > 0 => publishedBy' > 0
       /\ publishedBy' > 0 =>
              /\ cache'.updatedAt > 0
              /\ cache' # InitialCache
              /\ \A k \in DOMAIN responses' :
                    responses'[k].pub > 0 => responses'[k].body.updatedAt > 0
      ]_vars

\* C38, its case: a cycle after the first found every source out of reach
\* and published; the snapshot has no providers, its errors and its time
C38_Witness ==
    /\ publishedBy >= 2
    /\ cache.providers = <<>>
    /\ Len(cache.errors) = Len(FEEDS)
    /\ cache.updatedAt > CACHE_TTL_MS + 1

\* C38, its other case: a cycle failed after an earlier one had published
\* incidents, and a read was answered with the snapshot of the earlier one
C38_WitnessFailed ==
    /\ promise = "rejected"
    /\ publishedBy > 0
    /\ publishedBy < cycleNo
    /\ cache.providers # <<>>
    /\ \E k \in DOMAIN responses :
          responses[k].body.code = 500 /\ responses[k].body.updatedAt = cache.updatedAt

\* C39, as the claim states it: with a pool and no query failing, whenever
\* no query of a Subscribe or an Unsubscribe is out, an address is in the
\* subscribers table exactly when it is in the Set.
C39_PersistedMirrorsMemory ==
    (config.pool /\ subOps = <<>>) =>
        \A email \in DigestRequestEmails :
            email \in dbSubscribers <=> setHas(subscriberEmails, email)

\* C40, as the claim states it: an accepted Unsubscribe is not undone by
\* the startup load.  An address whose Unsubscribe was accepted while a
\* call of loadSubscribers was out, and that was not subscribed since, is
\* in the Set after a step only if that step is a Subscribe of it.
C40_UnsubscribeNotUndone ==
    [][\A email \in unsubscribed :
          setHas(subscriberEmails', email) =>
              /\ Len(subOps') = Len(subOps) + 1
              /\ Last(subOps') = [op |-> "insert", email |-> email]
      ]_vars
=============================================================================
